---- MODULE Spec2Model ----
(***************************************************************************)
(* Model of the Box metadata workflow (fairsailau/Metadata-V3.0):          *)
(*   - the extraction retry loop of modules/processing.py,                 *)
(*   - the threaded batch application engine of                            *)
(*     modules/metadata_application.py,                                    *)
(*   - the per-file create-then-update remote write and the metadata       *)
(*     resolution of the three apply variants,                             *)
(*   - the feedback merge of process_file in modules/processing.py,        *)
(*   - the resolution of the target files and of their metadata from the   *)
(*     session collections,                                                *)
(*   - the results view of modules/results_viewer.py and the Apply click   *)
(*     of modules/direct_metadata_application_enhanced.py over the stored  *)
(*     extraction records,                                                 *)
(*   - the session initialization of app.py and                            *)
(*     modules/metadata_application.py.                                    *)
(* SpecExtractLive is the extraction loop without Cancel under weak        *)
(* fairness of its step, which Streamlit's rerun after every step gives.   *)
(* Each part has its own specification over the shared variables; the      *)
(* variables of the other parts stay at their initial value.               *)
(***************************************************************************)
EXTENDS Integers, Sequences, FiniteSets, TLC

(***************************************************************************)
(* Bounds of the model.                                                    *)
(***************************************************************************)
MaxFiles == 2
MaxRetriesCap == 3
MaxTargets == 3
MaxBatch == 2
MaxRuns == 2
MaxWrites == 1
MaxRetryDelay == 2

(* processing.py:70, the default of processing_state["max_retries"].      *)
DefaultMaxRetries == 3

(* processing.py:71, the default of processing_state["retry_delay"].      *)
DefaultRetryDelay == 2

VARIABLES
    selected_files,     \* st.session_state.selected_files: sequence of file ids
    processing_state,   \* st.session_state.processing_state
    attempts,           \* history: process_file calls per file id since Start
    max_retries_fixed   \* history: max_retries unchanged since Start

VARIABLES
    available_file_ids, \* apply_metadata's resolved target list (closure of the thread)
    application_state,  \* st.session_state.application_state (the current dict)
    threads,            \* the apply_metadata_batch threads, by start order
    started             \* number of apply_metadata_batch threads started

VARIABLES
    remote,             \* the target file's metadata instance in "global"/"properties"
    requests,           \* the remote calls of the last per-file apply, with their answers
    file_result,        \* the dict the last per-file apply returned
    given,              \* the arguments and options of the last per-file apply
    writes              \* number of per-file applies so far

VARIABLES
    extraction_method,  \* st.session_state.metadata_config["extraction_method"]
    feedback_data,      \* st.session_state.feedback_data
    recorded,           \* processing_state["results"][file_id]["result"], by file id
    last_call           \* history: the last process_file call and what it extracted

VARIABLES
    session,            \* selected_files, extraction_results, processing_state["results"]
    targets,            \* available_file_ids and the two file_id_to_* dicts of a render
    lookup              \* the metadata_values found for every target at the Apply click

VARIABLES
    session_state,      \* st.session_state: the keys it has, with their values
    operation           \* history: the last operation on the session and the keys it set

xvars == <<selected_files, processing_state, attempts, max_retries_fixed>>

avars == <<available_file_ids, application_state, threads, started>>

wvars == <<remote, requests, file_result, given, writes>>

fvars == <<extraction_method, feedback_data, recorded, last_call>>

rvars == <<session, targets, lookup>>

vvars == <<session_state, operation>>

(* The variables of the parts added to the three engines.                  *)
ovars == <<fvars, rvars, vvars>>

vars == <<selected_files, processing_state, attempts, max_retries_fixed,
          available_file_ids, application_state, threads, started,
          remote, requests, file_result, given, writes,
          extraction_method, feedback_data, recorded, last_call,
          session, targets, lookup,
          session_state, operation>>

FileIds == 1..MaxFiles

EmptyMap == [x \in {} |-> 0]

(* dict[k] = v *)
Put(d, k, v) == [x \in DOMAIN d \cup {k} |-> IF x = k THEN v ELSE d[x]]

(***************************************************************************)
(* Extraction retry loop, modules/processing.py                            *)
(***************************************************************************)

(* processing.py:61-73, the state created on the first render.             *)
InitialProcessingState(n) ==
    [is_processing |-> FALSE, processed_files |-> 0, total_files |-> n,
     current_file_index |-> -1, results |-> EmptyMap, errors |-> EmptyMap,
     retries |-> EmptyMap, max_retries |-> DefaultMaxRetries,
     retry_delay |-> DefaultRetryDelay]

(* Mutant of ResetProcessingState: a cancelled run is resumed.             *)
ResetProcessingStateResume(ps, files) ==
    [is_processing |-> TRUE, processed_files |-> ps.processed_files,
     total_files |-> Len(files),
     current_file_index |-> IF ps.current_file_index < 0 THEN 0
                            ELSE ps.current_file_index,
     results |-> ps.results, errors |-> ps.errors,
     retries |-> EmptyMap, max_retries |-> ps.max_retries,
     retry_delay |-> ps.retry_delay]

(* processing.py:422-435, the state written by Start Processing.           *)
ResetProcessingState(ps, files) ==
    [is_processing |-> TRUE, processed_files |-> 0, total_files |-> Len(files),
     current_file_index |-> 0, results |-> EmptyMap, errors |-> EmptyMap,
     retries |-> EmptyMap, max_retries |-> ps.max_retries,
     retry_delay |-> ps.retry_delay]

(* Mutant of ShouldRetry: a failed file is never retried.                  *)
ShouldRetryNever(ps, file_id) == FALSE

(* Mutant of ShouldRetry: retries while the counter is <= max_retries.     *)
ShouldRetryOffByOne(ps, file_id) == ps.retries[file_id] <= ps.max_retries

(* processing.py:473 *)
ShouldRetry(ps, file_id) == ps.retries[file_id] < ps.max_retries

(* Mutant of WithRetryEntry: the counter is set to 0 on every failure.     *)
WithRetryEntryReset(ps, file_id) ==
    [ps EXCEPT !.retries = Put(ps.retries, file_id, 0)]

(* processing.py:470-471 *)
WithRetryEntry(ps, file_id) ==
    IF file_id \in DOMAIN ps.retries THEN ps
    ELSE [ps EXCEPT !.retries = Put(ps.retries, file_id, 0)]

(* Mutant of Advance: the file is not counted as processed.                *)
AdvanceNoCount(ps, files) ==
    LET idx == ps.current_file_index + 1
    IN [ps EXCEPT !.current_file_index = idx,
                  !.is_processing = IF idx >= Len(files) THEN FALSE
                                    ELSE ps.is_processing]

(* Mutant of Advance: the file is counted twice.                           *)
AdvanceCountsTwice(ps, files) ==
    LET idx == ps.current_file_index + 1
    IN [ps EXCEPT !.processed_files = ps.processed_files + 2,
                  !.current_file_index = idx,
                  !.is_processing = IF idx >= Len(files) THEN FALSE
                                    ELSE ps.is_processing]

(* Mutant of Advance: the run stops before the last file.                  *)
AdvanceStopsEarly(ps, files) ==
    LET idx == ps.current_file_index + 1
    IN [ps EXCEPT !.processed_files = ps.processed_files + 1,
                  !.current_file_index = idx,
                  !.is_processing = IF idx + 1 >= Len(files) THEN FALSE
                                    ELSE ps.is_processing]

(* processing.py:497-507: count the file, advance, stop after the last.    *)
Advance(ps, files) ==
    LET idx == ps.current_file_index + 1
    IN [ps EXCEPT !.processed_files = ps.processed_files + 1,
                  !.current_file_index = idx,
                  !.is_processing = IF idx >= Len(files) THEN FALSE
                                    ELSE ps.is_processing]

(* processing.py:446-516: one script run's processing step; ok is the      *)
(* "success" flag of process_file's result for the current file.           *)
ProcessStep(ps, files, ok) ==
    IF ~ps.is_processing THEN ps
    ELSE IF ps.current_file_index >= Len(files)
         THEN [ps EXCEPT !.is_processing = FALSE]
    ELSE
      LET file_id == files[ps.current_file_index + 1]
      IN IF ok
         THEN Advance([ps EXCEPT !.results =
                          Put(ps.results, file_id, [file_id |-> file_id])], files)
         ELSE LET p1 == WithRetryEntry(ps, file_id)
              IN IF ShouldRetry(p1, file_id)
                 THEN [p1 EXCEPT !.retries[file_id] = p1.retries[file_id] + 1]
                 ELSE Advance([p1 EXCEPT !.errors =
                          Put(p1.errors, file_id,
                              [file_id |-> file_id,
                               retries |-> p1.retries[file_id]])], files)

(* History bookkeeping of one processing step.                             *)
CountAttempt(ps, files) ==
    IF ps.is_processing /\ ps.current_file_index < Len(files)
    THEN [attempts EXCEPT ![files[ps.current_file_index + 1]] = @ + 1]
    ELSE attempts

(* processing.py:417-436 *)
StartProcessing ==
    /\ ~processing_state.is_processing
    /\ processing_state' = ResetProcessingState(processing_state, selected_files)
    /\ attempts' = [f \in FileIds |-> 0]
    /\ max_retries_fixed' = TRUE
    /\ UNCHANGED <<selected_files, avars, wvars, ovars>>

(* processing.py:439-443; the processing block is skipped in this run.     *)
CancelProcessing ==
    /\ processing_state.is_processing
    /\ processing_state' = [processing_state EXCEPT !.is_processing = FALSE]
    /\ UNCHANGED <<selected_files, attempts, max_retries_fixed, avars, wvars, ovars>>

(* A script run started by st.rerun(): processing.py:446-516.              *)
ProcessNext ==
    /\ processing_state.is_processing
    /\ \E ok \in BOOLEAN :
         processing_state' = ProcessStep(processing_state, selected_files, ok)
    /\ attempts' = CountAttempt(processing_state, selected_files)
    /\ UNCHANGED <<selected_files, max_retries_fixed, avars, wvars, ovars>>

(* processing.py:94-101: the Max Retries input is written into the state   *)
(* on every run; the run it triggers then processes the current file.      *)
ChangeMaxRetries ==
    \E m \in 0..MaxRetriesCap, ok \in BOOLEAN :
      /\ m # processing_state.max_retries
      /\ LET ps == [processing_state EXCEPT !.max_retries = m]
         IN /\ processing_state' = ProcessStep(ps, selected_files, ok)
            /\ attempts' = CountAttempt(ps, selected_files)
      /\ max_retries_fixed' = FALSE
      /\ UNCHANGED <<selected_files, avars, wvars, ovars>>


(* processing.py:105-112: the Retry Delay input is written into the state  *)
(* on every run; the run it triggers then processes the current file.      *)
ChangeRetryDelay ==
    \E d \in 1..MaxRetryDelay, ok \in BOOLEAN :
      /\ d # processing_state.retry_delay
      /\ LET ps == [processing_state EXCEPT !.retry_delay = d]
         IN /\ processing_state' = ProcessStep(ps, selected_files, ok)
            /\ attempts' = CountAttempt(ps, selected_files)
      /\ UNCHANGED <<selected_files, max_retries_fixed, avars, wvars, ovars>>


(***************************************************************************)
(* Batch application engine, modules/metadata_application.py               *)
(***************************************************************************)

(* metadata_application.py:138-145 and 603-610 *)
InitialApplicationState ==
    [is_applying |-> FALSE, applied_files |-> 0, total_files |-> 0,
     current_batch |-> <<>>, results |-> EmptyMap, errors |-> EmptyMap]

(* metadata_application.py:414-421, the dict the thread installs.          *)
RunningApplicationState(total) ==
    [is_applying |-> TRUE, applied_files |-> 0, total_files |-> total,
     current_batch |-> <<>>, results |-> EmptyMap, errors |-> EmptyMap]

(* metadata_application.py:549-556, the dict the Reset button installs.    *)
ResetApplicationState(total) ==
    [is_applying |-> FALSE, applied_files |-> 0, total_files |-> total,
     current_batch |-> <<>>, results |-> EmptyMap, errors |-> EmptyMap]

Min(a, b) == IF a <= b THEN a ELSE b

(* Mutant of BatchEnd: the slice takes one target too many.                *)
BatchEndOneMore(i, size, total) == Min(i + size + 1, total)

(* metadata_application.py:438 *)
BatchEnd(i, size, total) == Min(i + size, total)

(* metadata_application.py:439, available_file_ids[i:batch_end] as the     *)
(* 1-based positions of its members.                                       *)
CurrentBatch(i, size, total) == (i + 1)..BatchEnd(i, size, total)

(* The "success" field of the dict future.result() returns for one        *)
(* apply_metadata_to_file task: the remote write succeeded (lines 345-350, *)
(* 369-374) or a failure or exception was turned into an error dict        *)
(* (lines 260-265, 320-325, 375-399).                                      *)
TaskOutcomes == {"success", "error"}

(* concurrent.futures: the task behind the future has returned.            *)
TaskDone(t, k) == t.future[k] = "done"

(* A thread object before threading.Thread(...).start().                   *)
NoThread ==
    [pc |-> "none", batch_size |-> 0, i |-> 0, batch_no |-> 0,
     future |-> <<>>, batch_of |-> <<>>, yielded |-> {}, cur |-> 0,
     outcome |-> "none", read_value |-> 0, stale |-> FALSE, recorded |-> {}, stopped |-> FALSE,
     cancelled |-> FALSE]

(* metadata_application.py:505-506 *)
NewThread(size, total) ==
    [NoThread EXCEPT !.pc = "start", !.batch_size = size,
                     !.future = [k \in 1..total |-> "none"],
                     !.batch_of = [k \in 1..total |-> 0]]

Total == Len(available_file_ids)

RunIds == 1..started

(* Tasks submitted to the executor that have not returned yet.             *)
InFlight(t) == {k \in DOMAIN t.future : t.future[k] = "running"}

(* Mutant of BatchDrained: leaving the executor block does not wait.       *)
BatchDrainedNoWait(t) == TRUE

(* metadata_application.py:448, leaving the with-block runs                *)
(* executor.shutdown(wait=True): every submitted task has returned.        *)
BatchDrained(t) == InFlight(t) = {}

(* st.session_state.application_state is bound to a new dict: a thread     *)
(* between the load and the store of "applied_files += 1" holds the old    *)
(* dict, and its store no longer reaches application_state.                *)
Rebound(ths) ==
    [r \in DOMAIN ths |->
        IF ths[r].pc = "incr_write" THEN [ths[r] EXCEPT !.stale = TRUE]
        ELSE ths[r]]

(* History: the threads that were running when Cancel was clicked.        *)
CancelSeen(ths) ==
    [r \in DOMAIN ths |->
        IF ths[r].pc \in {"none", "done"} THEN ths[r]
        ELSE [ths[r] EXCEPT !.cancelled = TRUE]]

(* metadata_application.py:499-506, the Apply Metadata button (enabled     *)
(* while is_applying is false, line 236); auth is the result of            *)
(* verify_client_authentication.                                           *)
ApplyClick ==
    /\ ~application_state.is_applying
    /\ started < MaxRuns
    /\ \E auth \in BOOLEAN, size \in 1..MaxBatch :
         IF auth
         THEN /\ started' = started + 1
              /\ threads' = [threads EXCEPT ![started + 1] = NewThread(size, Total)]
         ELSE UNCHANGED <<started, threads>>
    /\ UNCHANGED <<available_file_ids, application_state, xvars, wvars, ovars>>

(* metadata_application.py:509-511, the Cancel button (enabled while       *)
(* is_applying is true, line 244).                                         *)
CancelClick ==
    /\ application_state.is_applying
    /\ application_state' = [application_state EXCEPT !.is_applying = FALSE]
    /\ threads' = CancelSeen(threads)
    /\ UNCHANGED <<available_file_ids, started, xvars, wvars, ovars>>

(* metadata_application.py:531-557, the Reset button of the completed view.*)
ResetClick ==
    /\ ~application_state.is_applying
    /\ application_state.applied_files > 0
    /\ application_state' = ResetApplicationState(Total)
    /\ threads' = Rebound(threads)
    /\ UNCHANGED <<available_file_ids, started, xvars, wvars, ovars>>

(* metadata_application.py:404-421 *)
ThreadStart(r) ==
    /\ threads[r].pc = "start"
    /\ application_state' = RunningApplicationState(Total)
    /\ threads' = [Rebound(threads) EXCEPT ![r].pc = "loop"]
    /\ UNCHANGED <<available_file_ids, started, xvars, wvars, ovars>>

(* metadata_application.py:494-496 *)
Finished(st) == [st EXCEPT !.is_applying = FALSE, !.current_batch = <<>>]

(* metadata_application.py:442-445, the names shown for the batch (the     *)
(* model names a file by its id).                                          *)
BatchNames(i, size) ==
    [n \in 1..(BatchEnd(i, size, Total) - i) |-> available_file_ids[i + n]]

(* metadata_application.py:450, every member of the batch is submitted.    *)
Submitted(t) ==
    [t EXCEPT !.pc = "collect",
              !.batch_no = t.batch_no + 1,
              !.future = [k \in DOMAIN t.future |->
                            IF k \in CurrentBatch(t.i, t.batch_size, Total)
                            THEN "running" ELSE t.future[k]],
              !.batch_of = [k \in DOMAIN t.batch_of |->
                            IF k \in CurrentBatch(t.i, t.batch_size, Total)
                            THEN t.batch_no + 1 ELSE t.batch_of[k]]]

(* metadata_application.py:424-450 and 494-496: one pass of the head of    *)
(* the batch loop. The range is exhausted or the flag is false: the loop   *)
(* is left and lines 495-496 run. verify_client_authentication (auth)      *)
(* fails: lines 432-435 return. Otherwise the batch is shown and submitted.*)
BatchLoop(r) ==
    LET t == threads[r] IN
    /\ t.pc = "loop"
    /\ IF t.i >= Total
       THEN /\ threads' = [threads EXCEPT ![r].pc = "done"]
            /\ application_state' = Finished(application_state)
       ELSE IF ~application_state.is_applying
       THEN /\ threads' = [threads EXCEPT ![r].pc = "done", ![r].stopped = TRUE]
            /\ application_state' = Finished(application_state)
       ELSE \E auth \in BOOLEAN :
              IF ~auth
              THEN /\ application_state' =
                        [application_state EXCEPT !.is_applying = FALSE]
                   /\ threads' = [threads EXCEPT ![r].pc = "done",
                                                 ![r].stopped = TRUE]
              ELSE /\ application_state' =
                        [application_state EXCEPT
                           !.current_batch = BatchNames(t.i, t.batch_size)]
                   /\ threads' = [threads EXCEPT ![r] = Submitted(t)]
    /\ UNCHANGED <<available_file_ids, started, xvars, wvars, ovars>>

(* metadata_application.py:253-399, a worker returns from                  *)
(* apply_metadata_to_file and its future holds the returned dict.          *)
TaskFinish(r) ==
    \E k \in InFlight(threads[r]) :
      /\ threads' = [threads EXCEPT ![r].future[k] = "done"]
      /\ UNCHANGED <<available_file_ids, application_state, started, xvars, wvars, ovars>>

(* metadata_application.py:453-461: as_completed hands over the next       *)
(* finished future and the cancellation flag is read; with the flag false  *)
(* the inner loop is left and the result is dropped, otherwise             *)
(* future.result() gives the task's dict. With every future handed over    *)
(* the with-block is left.                                                 *)
Collect(r) ==
    LET t == threads[r]
        batch == CurrentBatch(t.i, t.batch_size, Total)
    IN
    /\ t.pc = "collect"
    /\ IF batch \subseteq t.yielded
       THEN threads' = [threads EXCEPT ![r].pc = "join"]
       ELSE \E k \in batch \ t.yielded, out \in TaskOutcomes :
              /\ TaskDone(t, k)
              /\ IF ~application_state.is_applying
                 THEN threads' = [threads EXCEPT ![r].pc = "join",
                                                 ![r].yielded = @ \cup {k},
                                                 ![r].stopped = TRUE]
                 ELSE threads' = [threads EXCEPT ![r].pc = "record",
                                                 ![r].yielded = @ \cup {k},
                                                 ![r].cur = k,
                                                 ![r].outcome = out]
    /\ UNCHANGED <<available_file_ids, application_state, started, xvars, wvars, ovars>>

(* metadata_application.py:463-476: the result dict is stored under its    *)
(* file_id, in results when it succeeded and in errors otherwise.          *)
Stored(st, file_id, outcome) ==
    IF outcome = "success"
    THEN [st EXCEPT !.results = Put(@, file_id, "metadata")]
    ELSE [st EXCEPT !.errors = Put(@, file_id, "error")]

(* Mutant of AfterRecord: a failed task ends the thread.                   *)
AfterRecordAbort(outcome) == IF outcome = "error" THEN "done" ELSE "incr_write"

(* metadata_application.py:460-492: success or failure, the counter is     *)
(* updated next and the loop over the futures goes on.                     *)
AfterRecord(outcome) == "incr_write"

(* metadata_application.py:459-479: the result is stored, then             *)
(* "applied_files += 1" loads the counter.                                 *)
Record(r) ==
    LET t == threads[r]
        file_id == available_file_ids[t.cur]
    IN
    /\ t.pc = "record"
    /\ application_state' = Stored(application_state, file_id, t.outcome)
    /\ threads' = [threads EXCEPT ![r].pc = AfterRecord(t.outcome),
                                  ![r].recorded = @ \cup {file_id},
                                  ![r].outcome = "none",
                                  ![r].read_value = application_state.applied_files,
                                  ![r].stale = FALSE]
    /\ UNCHANGED <<available_file_ids, started, xvars, wvars, ovars>>

(* metadata_application.py:479, the store of "applied_files += 1" into the *)
(* dict the counter was loaded from.                                       *)
IncrWrite(r) ==
    LET t == threads[r] IN
    /\ t.pc = "incr_write"
    /\ application_state' =
         IF t.stale THEN application_state
         ELSE [application_state EXCEPT !.applied_files = t.read_value + 1]
    /\ threads' = [threads EXCEPT ![r].pc = "collect", ![r].cur = 0,
                                  ![r].read_value = 0, ![r].stale = FALSE]
    /\ UNCHANGED <<available_file_ids, started, xvars, wvars, ovars>>

(* metadata_application.py:448-457, the end of the with-block, then the    *)
(* next value of range(0, total_files, batch_size).                        *)
Join(r) ==
    LET t == threads[r] IN
    /\ t.pc = "join"
    /\ BatchDrained(t)
    /\ threads' = [threads EXCEPT ![r].pc = "loop", ![r].i = t.i + t.batch_size,
                                  ![r].yielded = {}]
    /\ UNCHANGED <<available_file_ids, application_state, started, xvars, wvars, ovars>>

(***************************************************************************)
(* Strings: a str is the sequence of its characters.                       *)
(***************************************************************************)

UpperCase == <<"A", "B", "C", "D", "E", "F", "G", "H", "I", "J", "K", "L", "M", "N", "O", "P", "Q", "R", "S", "T", "U", "V", "W", "X", "Y", "Z">>

LowerCase == <<"a", "b", "c", "d", "e", "f", "g", "h", "i", "j", "k", "l", "m", "n", "o", "p", "q", "r", "s", "t", "u", "v", "w", "x", "y", "z">>

ToLower == [c \in {UpperCase[i] : i \in 1..26} |->
              LowerCase[CHOOSE i \in 1..26 : UpperCase[i] = c]]

LowerChar(c) == IF c \in DOMAIN ToLower THEN ToLower[c] ELSE c

(* str.lower() *)
Lower(s) == [i \in 1..Len(s) |-> LowerChar(s[i])]

(* sub in s *)
Contains(s, sub) ==
    \E i \in 0..(Len(s) - Len(sub)) : SubSeq(s, i + 1, i + Len(sub)) = sub

(* s.startswith(prefix) *)
StartsWith(s, prefix) ==
    Len(s) >= Len(prefix) /\ SubSeq(s, 1, Len(prefix)) = prefix

(* s.replace(old, new) for one-character old and new *)
ReplaceChar(s, old, new) == [i \in 1..Len(s) |-> IF s[i] = old THEN new ELSE s[i]]

(* dict restricted to a set of keys *)
Restrict(d, keys) == [k \in keys |-> d[k]]

(* The order in which a dict's keys are iterated.                          *)
RECURSIVE KeySeq(_)
KeySeq(keys) ==
    IF keys = {} THEN <<>>
    ELSE LET k == CHOOSE x \in keys : TRUE IN <<k>> \o KeySeq(keys \ {k})

(***************************************************************************)
(* Per-file remote write: apply_metadata_to_file of                        *)
(* modules/metadata_application.py and apply_metadata_to_file_direct of    *)
(* modules/direct_metadata_application_enhanced.py and                     *)
(* modules/direct_metadata_application_enhanced_fixed.py                   *)
(***************************************************************************)

AlreadyExistsText == <<"a", "l", "r", "e", "a", "d", "y", " ", "e", "x", "i", "s", "t", "s">>

(* Mutant of ErrorSaysAlreadyExists: the error text is not lower-cased.    *)
ErrorSaysAlreadyExistsCaseSensitive(text) == Contains(text, AlreadyExistsText)

(* metadata_application.py:352, enhanced.py:519:                           *)
(* "already exists" in str(e).lower()                                      *)
ErrorSaysAlreadyExists(text) == Contains(Lower(text), AlreadyExistsText)

(* metadata_application.py:356-362, enhanced.py:523-529: one               *)
(* {"op": "replace", "path": f"/{key}", "value": value} per key.           *)
ReplaceOperations(metadata_values) ==
    LET ks == KeySeq(DOMAIN metadata_values)
    IN [i \in 1..Len(ks) |->
          [op |-> "replace", path |-> <<"/">> \o ks[i],
           value |-> metadata_values[ks[i]]]]

(* The metadata instance of a file in scope "global", template             *)
(* "properties": absent, or a flat key/value object.                       *)
NoInstance == [exists |-> FALSE, data |-> EmptyMap]

Instance(data) == [exists |-> TRUE, data |-> data]

NoError == <<>>

(* Texts of the exception a refused create raises. The first two are the   *)
(* service's conflict message in two spellings, the third carries only its *)
(* error code, the last is an unrelated refusal.                           *)
ConflictLower == <<"i", "t", "e", "m", " ", "a", "l", "r", "e", "a", "d", "y", " ", "e", "x", "i", "s", "t", "s">>

ConflictMixed == <<"C", "o", "n", "f", "l", "i", "c", "t", ":", " ", "A", "l", "r", "e", "a", "d", "y", " ", "E", "x", "i", "s", "t", "s">>

ConflictCode == <<"t", "u", "p", "l", "e", "_", "a", "l", "r", "e", "a", "d", "y", "_", "e", "x", "i", "s", "t", "s">>

Forbidden == <<"f", "o", "r", "b", "i", "d", "d", "e", "n">>

CreateErrors == {ConflictLower, ConflictMixed, ConflictCode, Forbidden}

(* The answers the remote service can give to the calls of one per-file    *)
(* apply: create succeeds (NoError) only on a file without an instance and *)
(* is refused with a conflict only on a file with one; an update is        *)
(* refused ("error"), or applied with replace operations on missing keys   *)
(* either refused ("strict") or adding the key ("lenient").                *)
Environments(inst) ==
    {e \in [create_error : CreateErrors \cup {NoError},
            update : {"error", "strict", "lenient"}] :
        /\ (e.create_error = NoError) => ~inst.exists
        /\ (e.create_error \in {ConflictLower, ConflictMixed, ConflictCode})
              => inst.exists}

(* metadata_application.py:342, enhanced.py:510:                           *)
(* file_obj.metadata("global", "properties").create(metadata_values)       *)
RemoteCreate(inst, metadata_values, env) ==
    IF env.create_error = NoError
    THEN [ok |-> TRUE, text |-> NoError, inst |-> Instance(metadata_values)]
    ELSE [ok |-> FALSE, text |-> env.create_error, inst |-> inst]

(* The key a JSON-Patch path "/<key>" addresses.                           *)
PathKey(path) == Tail(path)

RECURSIVE Patched(_, _)
Patched(data, ops) ==
    IF ops = <<>> THEN data
    ELSE LET o == Head(ops)
             k == PathKey(o.path)
         IN Patched([x \in DOMAIN data \cup {k} |->
                        IF x = k THEN o.value ELSE data[x]], Tail(ops))

(* metadata_application.py:366, enhanced.py:533:                           *)
(* file_obj.metadata("global", "properties").update(operations)            *)
RemoteUpdate(inst, operations, env) ==
    LET wellFormed == \A i \in 1..Len(operations) :
                         StartsWith(operations[i].path, <<"/">>)
        present == \A i \in 1..Len(operations) :
                         PathKey(operations[i].path) \in DOMAIN inst.data
        ok == /\ inst.exists
              /\ wellFormed
              /\ env.update # "error"
              /\ (env.update = "strict" => present)
    IN IF ok THEN [ok |-> TRUE, inst |-> Instance(Patched(inst.data, operations))]
       ELSE [ok |-> FALSE, inst |-> inst]

(* One remote call as it left the program, with the service's answer.      *)
Request(op, body, ok, text) ==
    [op |-> op, scope |-> "global", template |-> "properties",
     body |-> body, ok |-> ok, text |-> text]

(* The dict a per-file apply returns: "success", and the kind of "error".  *)
FileResult(success, error) == [success |-> success, error |-> error]

(* metadata_application.py:336-390, enhanced.py:504-557,                   *)
(* enhanced_fixed.py:381-434: create, and on "already exists" update.      *)
Write(inst, metadata_values, env) ==
    LET created == RemoteCreate(inst, metadata_values, env)
        operations == ReplaceOperations(metadata_values)
        updated == RemoteUpdate(inst, operations, env)
        createReq == Request("create", metadata_values, created.ok, created.text)
        updateReq == Request("update", operations, updated.ok, NoError)
    IN IF created.ok
       THEN [remote |-> created.inst, requests |-> <<createReq>>,
             result |-> FileResult(TRUE, "none")]
       ELSE IF ErrorSaysAlreadyExists(created.text)
       THEN IF updated.ok
            THEN [remote |-> updated.inst, requests |-> <<createReq, updateReq>>,
                  result |-> FileResult(TRUE, "none")]
            ELSE [remote |-> inst, requests |-> <<createReq, updateReq>>,
                  result |-> FileResult(FALSE, "Error updating metadata")]
       ELSE [remote |-> inst, requests |-> <<createReq>>,
             result |-> FileResult(FALSE, "Error creating metadata")]

(* A return before any remote call.                                        *)
NoWrite(inst, error) ==
    [remote |-> inst, requests |-> <<>>, result |-> FileResult(FALSE, error)]

(***************************************************************************)
(* The values the per-file apply is given.                                 *)
(***************************************************************************)

KeyA == <<"a">>

KeyBC == <<"B", " ", "c">>

KeyInternal == <<"_", "n">>

KeyZ == <<"z">>

Seven == <<"7">>

Nine == <<"9">>

PlaceholderValue == <<"<", "d", "a", "t", "e", ">">>

PlaceholderUpper == <<"Y", "O", "U", "R", " ", "N", "A", "M", "E">>

(* Python's None: a value that is not a str.                               *)
NoneValue == <<"NoneType">>

(* A value that is a list, ['x'].                                          *)
ListValue == <<"list">>

(* str(value) *)
Str(value) ==
    CASE value = NoneValue -> <<"N", "o", "n", "e">>
      [] value = ListValue -> <<"[", "'", "x", "'", "]">>
      [] OTHER -> value

InputDicts ==
    {EmptyMap,
     KeyA :> Seven,
     (KeyA :> Nine) @@ (KeyBC :> Seven),
     KeyInternal :> Seven,
     KeyA :> PlaceholderValue,
     (KeyA :> PlaceholderValue) @@ (KeyZ :> PlaceholderUpper),
     KeyA :> NoneValue}

PlainText == <<"t", "e", "x", "t">>

JsonScalar == <<"7">>

JsonEmptyObject == <<"{", "}">>

JsonObject == <<"{", "\"", "a", "\"", ":", " ", "\"", "7", "\"", "}">>

(* json.loads(text): the parsed dict, another JSON value ("other"), or     *)
(* JSONDecodeError ("invalid").                                            *)
JsonLoads(text) ==
    CASE text = JsonEmptyObject -> [kind |-> "dict", dict |-> EmptyMap]
      [] text = JsonObject -> [kind |-> "dict", dict |-> KeyA :> Seven]
      [] text = JsonScalar -> [kind |-> "other", dict |-> EmptyMap]
      [] OTHER -> [kind |-> "invalid", dict |-> EmptyMap]

(* A metadata content: a dict, a str, or no entry.                         *)
DictContent(d) == [kind |-> "dict", dict |-> d, text |-> <<>>]

StrContent(t) == [kind |-> "str", dict |-> EmptyMap, text |-> t]

Absent == [kind |-> "absent", dict |-> EmptyMap, text |-> <<>>]

InputContents ==
    {DictContent(d) : d \in InputDicts}
      \cup {StrContent(t) : t \in {PlainText, JsonScalar, JsonEmptyObject, JsonObject}}

(* The extraction_results entry whose "file_id" is the target: its         *)
(* "result" and its api_response "answer".                                 *)
NoRecord == [present |-> FALSE, result |-> Absent, answer |-> Absent]

ExtractionRecord(result, answer) == [present |-> TRUE, result |-> result, answer |-> answer]

FallbackRecords ==
    {NoRecord,
     ExtractionRecord(Absent, Absent),
     ExtractionRecord(DictContent(KeyA :> Seven), Absent),
     ExtractionRecord(StrContent(PlainText), Absent),
     ExtractionRecord(DictContent(EmptyMap), DictContent(KeyZ :> Nine)),
     ExtractionRecord(DictContent(KeyInternal :> Seven), DictContent(KeyZ :> Nine)),
     ExtractionRecord(Absent, StrContent(PlainText))}

(* bool(content) *)
Truthy(content) ==
    \/ content.kind = "dict" /\ DOMAIN content.dict # {}
    \/ content.kind = "str" /\ content.text # <<>>

NotInternal(d) == Restrict(d, {k \in DOMAIN d : ~StartsWith(k, <<"_">>)})

ExtractedTextKey == <<"e", "x", "t", "r", "a", "c", "t", "e", "d", "_", "t", "e", "x", "t">>

AnswerKey == <<"a", "n", "s", "w", "e", "r">>

(* metadata_application.py:273-294 *)
ValuesFromContent(content) ==
    CASE content.kind = "dict" -> NotInternal(content.dict)
      [] content.kind = "str" ->
           IF JsonLoads(content.text).kind = "dict"
           THEN JsonLoads(content.text).dict
           ELSE ExtractedTextKey :> content.text
      [] OTHER -> EmptyMap

(* metadata_application.py:295-315 *)
ValuesFromRecord(record) ==
    IF ~record.present THEN EmptyMap
    ELSE IF Truthy(record.result)
    THEN IF record.result.kind = "dict" THEN NotInternal(record.result.dict)
         ELSE ExtractedTextKey :> record.result.text
    ELSE IF record.answer.kind = "absent" THEN EmptyMap
    ELSE IF record.answer.kind = "dict" THEN record.answer.dict
    ELSE AnswerKey :> record.answer.text

(* metadata_application.py:327-330, enhanced.py:496-499 *)
Stringified(metadata_values) ==
    [k \in DOMAIN metadata_values |-> Str(metadata_values[k])]

PlaceholderIndicators ==
    {<<"i", "n", "s", "e", "r", "t">>,
     <<"p", "l", "a", "c", "e", "h", "o", "l", "d", "e", "r">>,
     <<"<">>, <<">">>, <<"[">>, <<"]">>,
     <<"e", "n", "t", "e", "r">>,
     <<"f", "i", "l", "l", " ", "i", "n">>,
     <<"y", "o", "u", "r">>,
     <<"e", "x", "a", "m", "p", "l", "e">>}

(* enhanced.py:398-409 *)
IsPlaceholder(value) ==
    /\ value # NoneValue
    /\ \E indicator \in PlaceholderIndicators : Contains(Lower(value), indicator)

NoteKey == <<"_", "n", "o", "t", "e">>

NoteValue == <<"A", "l", "l", " ", "o", "t", "h", "e", "r", " ", "v", "a", "l", "u", "e", "s", " ", "w", "e", "r", "e", " ", "p", "l", "a", "c", "e", "h", "o", "l", "d", "e", "r", "s">>

(* Mutant of FilterPlaceholders: nothing is kept when every value is a     *)
(* placeholder.                                                            *)
FilterPlaceholdersDropAll(metadata_values) ==
    Restrict(metadata_values,
             {k \in DOMAIN metadata_values : ~IsPlaceholder(metadata_values[k])})

(* enhanced.py:461-475, enhanced_fixed.py:338-352 *)
FilterPlaceholders(metadata_values) ==
    LET kept == Restrict(metadata_values,
                   {k \in DOMAIN metadata_values : ~IsPlaceholder(metadata_values[k])})
        first_key == KeySeq(DOMAIN metadata_values)[1]
    IN IF DOMAIN kept = {} /\ DOMAIN metadata_values # {}
       THEN (NoteKey :> NoteValue) @@ (first_key :> metadata_values[first_key])
       ELSE kept

(* enhanced.py:492 *)
NormalizedKey(key) == ReplaceChar(ReplaceChar(Lower(key), " ", "_"), "-", "_")

(* enhanced.py:488-494: a later key overwrites an earlier one with the     *)
(* same normalized key.                                                    *)
NormalizeKeys(metadata_values) ==
    LET ks == KeySeq(DOMAIN metadata_values)
        last(nk) == CHOOSE i \in 1..Len(ks) :
                       /\ NormalizedKey(ks[i]) = nk
                       /\ \A j \in (i + 1)..Len(ks) : NormalizedKey(ks[j]) # nk
    IN [nk \in {NormalizedKey(k) : k \in DOMAIN metadata_values} |->
          metadata_values[ks[last(nk)]]]

FileName == <<"f", ".", "p", "d", "f">>

(* enhanced_fixed.py:200-213 *)
DefaultMetadata(file_name) ==
    (<<"f", "i", "l", "e", "_", "n", "a", "m", "e">> :> file_name)
      @@ (<<"t", "e", "s", "t", "_", "k", "e", "y">> :> <<"t", "e", "s", "t", "_", "v", "a", "l", "u", "e">>)

(* The arguments and options of one per-file apply.                        *)
Given(variant, content, record, authenticated, options) ==
    [variant |-> variant, content |-> content, record |-> record,
     authenticated |-> authenticated, options |-> options]

(* The checkboxes of the direct variants (enhanced.py:339-361) and what    *)
(* surrounds the call: extract_metadata_from_ui's dict (ui_metadata) and   *)
(* whether file_id_to_metadata has an entry for another file (others).     *)
Options(normalize_keys, filter_placeholders, use_ui_data, ui_metadata, others) ==
    [normalize_keys |-> normalize_keys, filter_placeholders |-> filter_placeholders,
     use_ui_data |-> use_ui_data, ui_metadata |-> ui_metadata, others |-> others]

NoOptions == Options(FALSE, FALSE, FALSE, EmptyMap, FALSE)

NoGiven == Given("none", Absent, NoRecord, FALSE, NoOptions)

(* An answer of the service is drawn only for a call that is made.         *)
Consulted(out, env) ==
    /\ Len(out.requests) < 2 => env.update = "error"
    /\ Len(out.requests) < 1 => env.create_error = Forbidden

Returned(out, g, env) ==
    /\ Consulted(out, env)
    /\ remote' = out.remote
    /\ requests' = out.requests
    /\ file_result' = out.result
    /\ given' = g
    /\ writes' = writes + 1

(* metadata_application.py:253-399, apply_metadata_to_file for one target: *)
(* content is the target's entry of file_id_to_metadata, record the        *)
(* extraction_results entry read when there is no such entry.              *)
ApplyMetadataToFileOut(inst, authenticated, content, record, env) ==
    LET metadata_values ==
            IF content.kind # "absent" THEN ValuesFromContent(content)
            ELSE ValuesFromRecord(record)
    IN IF ~authenticated
       THEN NoWrite(inst, "Box client not authenticated. Please authenticate and try again.")
       ELSE IF DOMAIN metadata_values = {}
       THEN NoWrite(inst, "No metadata values found")
       ELSE Write(inst, Stringified(metadata_values), env)

(* metadata_application.py:206-216: in freeform mode the page shows the    *)
(* "Normalize keys" checkbox (checked by default); normalize_keys is read  *)
(* nowhere after line 211, so the values written do not depend on it.      *)
ApplyMetadataToFile ==
    /\ writes < MaxWrites
    /\ \E authenticated \in BOOLEAN, content \in InputContents \cup {Absent},
          record \in FallbackRecords, normalize_keys \in BOOLEAN,
          env \in Environments(remote) :
         /\ content.kind # "absent" => record = NoRecord
         /\ ~authenticated => content = Absent /\ record = NoRecord /\ ~normalize_keys
         /\ \E out \in {ApplyMetadataToFileOut(remote, authenticated, content,
                                                 record, env)} :
               Returned(out, Given("metadata_application", content, record,
                                   authenticated,
                                   Options(normalize_keys, FALSE, FALSE, EmptyMap, FALSE)),
                        env)
    /\ UNCHANGED <<xvars, avars, ovars>>

(* enhanced.py:466-499 and enhanced_fixed.py:338-376: filter, the check    *)
(* for an empty dict, key normalization, string conversion, then the write.*)
FilteredWrite(inst, metadata_values, options, env) ==
    LET filtered == IF options.filter_placeholders
                    THEN FilterPlaceholders(metadata_values) ELSE metadata_values
        normalized == IF options.normalize_keys
                      THEN NormalizeKeys(filtered) ELSE filtered
    IN IF DOMAIN filtered = {}
       THEN NoWrite(inst, "No valid metadata found after filtering placeholders")
       ELSE Write(inst, Stringified(normalized), env)

(* enhanced.py:439-566, apply_metadata_to_file_direct *)
ApplyMetadataToFileDirectOut(inst, metadata_values, options, env) ==
    LET from_ui == /\ DOMAIN metadata_values = {}
                   /\ options.use_ui_data
                   /\ DOMAIN options.ui_metadata # {}
    IN FilteredWrite(inst, IF from_ui THEN options.ui_metadata ELSE metadata_values,
                     options, env)

ApplyMetadataToFileDirect ==
    /\ writes < MaxWrites
    /\ \E metadata_values \in InputDicts, normalize_keys \in BOOLEAN,
          filter_placeholders \in BOOLEAN, use_ui_data \in BOOLEAN,
          ui_metadata \in {EmptyMap, KeyZ :> Nine}, env \in Environments(remote) :
         /\ ~use_ui_data => ui_metadata = EmptyMap
         /\ DOMAIN metadata_values # {} => ~use_ui_data
         /\ LET options == Options(normalize_keys, filter_placeholders,
                                   use_ui_data, ui_metadata, FALSE)
            IN \E out \in {ApplyMetadataToFileDirectOut(remote, metadata_values,
                                                          options, env)} :
                  Returned(out, Given("enhanced", DictContent(metadata_values),
                                      NoRecord, TRUE, options), env)
    /\ UNCHANGED <<xvars, avars, ovars>>

(* enhanced_fixed.py:200-213 and 468: the metadata the Apply click passes  *)
(* for the target. With no entry for any file the resolver has filled in   *)
(* the default metadata for every available file id.                       *)
FixedMetadataFor(content, others) ==
    IF content.kind = "dict" THEN content.dict
    ELSE IF others THEN EmptyMap
    ELSE DefaultMetadata(FileName)

(* enhanced_fixed.py:313-443, apply_metadata_to_file_direct *)
ApplyMetadataToFileFixedOut(inst, metadata_values, options, env) ==
    IF DOMAIN metadata_values = {}
    THEN NoWrite(inst, "No metadata found for this file")
    ELSE FilteredWrite(inst, metadata_values, options, env)

(* enhanced_fixed.py:445-476, the Apply click for one target.              *)
ApplyMetadataFixed ==
    /\ writes < MaxWrites
    /\ \E content \in {DictContent(d) : d \in InputDicts} \cup {Absent},
          others \in BOOLEAN, normalize_keys \in BOOLEAN,
          filter_placeholders \in BOOLEAN, env \in Environments(remote) :
         /\ content.kind # "absent" => ~others
         /\ LET options == Options(normalize_keys, filter_placeholders,
                                   FALSE, EmptyMap, others)
            IN \E out \in {ApplyMetadataToFileFixedOut(remote,
                               FixedMetadataFor(content, others), options, env)} :
                  Returned(out, Given("enhanced_fixed", content, NoRecord, TRUE,
                                      options), env)
    /\ UNCHANGED <<xvars, avars, ovars>>

(* The metadata a file may carry before the first apply.                   *)
RemoteDicts ==
    {EmptyMap, KeyA :> Seven, KeyA :> Nine, KeyZ :> Nine,
     (KeyA :> Nine) @@ (KeyZ :> Nine)}

(***************************************************************************)
(* Feedback merge of process_file, modules/processing.py                   *)
(***************************************************************************)

MaxFeedback == 2

ExtractionMethods == {"structured", "freeform"}

(* A value that is itself a dict or a list (a nested answer, the raw       *)
(* response kept for debugging).                                           *)
NestedValue == <<"{", ".", ".", ".", "}">>

(* What the extraction call returns: {"error": ...}, or a dict with an     *)
(* "answer" (dict or str) and further top-level fields; none of the        *)
(* responses here has a "response" or an "items" field.                    *)
ApiResults ==
    {[error |-> TRUE, answer |-> Absent, fields |-> EmptyMap],
     [error |-> FALSE, answer |-> Absent, fields |-> EmptyMap],
     [error |-> FALSE, answer |-> DictContent(EmptyMap), fields |-> EmptyMap],
     [error |-> FALSE,
      answer |-> DictContent((KeyA :> Seven) @@ (KeyInternal :> Seven)),
      fields |-> EmptyMap],
     [error |-> FALSE, answer |-> StrContent(JsonObject), fields |-> KeyZ :> Seven],
     [error |-> FALSE, answer |-> StrContent(PlainText), fields |-> EmptyMap],
     [error |-> FALSE, answer |-> Absent,
      fields |-> (KeyA :> Seven) @@ (KeyZ :> Seven)]}

(* The items of the response dict other than "error".                      *)
TopLevel(api_result) ==
    api_result.fields @@
      (CASE api_result.answer.kind = "str" -> AnswerKey :> api_result.answer.text
         [] api_result.answer.kind = "dict" -> AnswerKey :> NestedValue
         [] OTHER -> EmptyMap)

(* processing.py:200-260 *)
ExtractStructuredDataFromResponse(api_result) ==
    IF api_result.answer.kind = "dict" THEN api_result.answer.dict
    ELSE IF /\ api_result.answer.kind = "str"
            /\ JsonLoads(api_result.answer.text).kind = "dict"
         THEN JsonLoads(api_result.answer.text).dict
    ELSE TopLevel(api_result)

(* processing.py:302-306, 329-333 and 354-363: the result before the       *)
(* feedback is merged.                                                     *)
FreshResult(api_result, method) ==
    IF method = "structured" THEN TopLevel(api_result)
    ELSE LET structured_data == ExtractStructuredDataFromResponse(api_result)
         IN IF DOMAIN structured_data = {}
            THEN <<"_", "r", "a", "w", "_", "r", "e", "s", "p", "o", "n", "s", "e">>
                   :> NestedValue
            ELSE structured_data

(* processing.py:272 and 612, f"{file_id}_{method}"                        *)
FeedbackKey(file_id, method) == <<file_id, "_", method>>

(* Mutant of MergeFeedback: the feedback of the file is merged whatever    *)
(* method it was given for.                                                *)
MergeFeedbackAnyMethod(result, file_id, method, feedback) ==
    LET keys == {FeedbackKey(file_id, m) : m \in ExtractionMethods}
                  \cap DOMAIN feedback
    IN IF keys = {} THEN result
       ELSE feedback[CHOOSE k \in keys : TRUE] @@ result

(* processing.py:273 and 310-314, 337-341, 366-370 *)
MergeFeedback(result, file_id, method, feedback) ==
    IF FeedbackKey(file_id, method) \in DOMAIN feedback
    THEN feedback[FeedbackKey(file_id, method)] @@ result
    ELSE result

(* processing.py:263-414: process_file. In structured mode lines 389-395   *)
(* index visualization_data["field_success"], which neither line 72 nor    *)
(* line 434 creates: a result with a field raises KeyError, caught at 405. *)
ProcessFile(file_id, api_result, method, feedback) ==
    LET result == MergeFeedback(FreshResult(api_result, method), file_id,
                                method, feedback)
    IN IF api_result.error \/ (method = "structured" /\ DOMAIN result # {})
       THEN [success |-> FALSE, result |-> EmptyMap]
       ELSE [success |-> TRUE, result |-> result]

(* No process_file call was the last step.                                 *)
NoCall == [file_id |-> 0, method |-> "", fresh |-> EmptyMap, success |-> FALSE]

(* processing.py:421-435: Start Processing empties the results.            *)
StartExtraction ==
    /\ recorded # EmptyMap
    /\ recorded' = EmptyMap
    /\ last_call' = NoCall
    /\ UNCHANGED <<extraction_method, feedback_data, xvars, avars, wvars, rvars, vvars>>

(* processing.py:446-466: the step processes the current file and stores   *)
(* the result of a success.                                                *)
ProcessFileStep ==
    \E file_id \in FileIds \ DOMAIN recorded, api_result \in ApiResults :
      \E out \in {ProcessFile(file_id, api_result, extraction_method,
                              feedback_data)} :
        /\ recorded' = IF out.success THEN Put(recorded, file_id, out.result)
                       ELSE recorded
        /\ last_call' = [file_id |-> file_id, method |-> extraction_method,
                         fresh |-> FreshResult(api_result, extraction_method),
                         success |-> out.success]
        /\ UNCHANGED <<extraction_method, feedback_data, xvars, avars, wvars, rvars, vvars>>

(* processing.py:560-620: the feedback form over a recorded result; the    *)
(* user keeps or overwrites the shown fields and may add one pair.         *)
SubmitFeedback ==
    \E selected_file_id \in DOMAIN recorded, edit \in BOOLEAN,
       new \in {EmptyMap, KeyZ :> Nine} :
      LET result_data == recorded[selected_file_id]
          feedback_key == FeedbackKey(selected_file_id, extraction_method)
          feedback == new @@ [k \in DOMAIN NotInternal(result_data) |->
                                IF edit THEN Nine ELSE result_data[k]]
      IN /\ Cardinality(DOMAIN feedback_data \cup {feedback_key}) <= MaxFeedback
         /\ feedback_data' = Put(feedback_data, feedback_key, feedback)
         /\ recorded' = [recorded EXCEPT ![selected_file_id] = feedback @@ result_data]
         /\ last_call' = NoCall
         /\ UNCHANGED <<extraction_method, xvars, avars, wvars, rvars, vvars>>

(* metadata_config.py:35-42 *)
SetExtractionMethod ==
    /\ \E method \in ExtractionMethods \ {extraction_method} :
         extraction_method' = method
    /\ last_call' = NoCall
    /\ UNCHANGED <<feedback_data, recorded, xvars, avars, wvars, rvars, vvars>>

(* metadata_config.py:27 and processing.py:33-34 *)
FIdle ==
    /\ extraction_method = "structured"
    /\ feedback_data = EmptyMap
    /\ recorded = EmptyMap
    /\ last_call = NoCall

(***************************************************************************)
(* Resolution of the target files and of their metadata: apply_metadata    *)
(* of modules/metadata_application.py and apply_metadata_direct of the     *)
(* two direct variants.                                                    *)
(***************************************************************************)

MaxSelected == 2

MaxRecords == 2

(* File ids are digit strings; the second contains the first.              *)
FileOne == <<"1">>

FileEleven == <<"1", "1">>

(* A key or field that is not there.                                       *)
NoField == <<"absent">>

(* str.isdigit() *)
IsDigit(s) ==
    /\ s # <<>>
    /\ s # NoField
    /\ \A i \in 1..Len(s) :
         s[i] \in {"0", "1", "2", "3", "4", "5", "6", "7", "8", "9"}

(* item in list *)
InSeq(x, seq) == \E i \in 1..Len(seq) : seq[i] = x

(* An entry of extraction_results: its "file_id", "file_name",             *)
(* "result_data", "result" and api_response "answer", and its other        *)
(* top-level fields.                                                       *)
ResultRecords ==
    LET ResultRecord(file_id, result_data, result, answer, fields) ==
          [file_id |-> file_id,
           file_name |-> IF file_id = NoField THEN NoField ELSE <<"r">> \o file_id,
           result_data |-> result_data, result |-> result, answer |-> answer,
           fields |-> fields]
    IN
    {ResultRecord(FileOne, Absent, DictContent(KeyA :> Seven), Absent, EmptyMap),
     ResultRecord(FileOne, Absent, DictContent(EmptyMap), Absent, EmptyMap),
     ResultRecord(FileOne, Absent, DictContent(KeyInternal :> Seven),
                  DictContent(KeyZ :> Nine), EmptyMap),
     ResultRecord(FileOne, DictContent(KeyA :> Nine), Absent, Absent, EmptyMap),
     ResultRecord(FileEleven, Absent, Absent, DictContent(KeyZ :> Nine), EmptyMap),
     ResultRecord(FileEleven, Absent, DictContent(KeyA :> Nine), Absent, EmptyMap),
     ResultRecord(NoField, Absent, Absent, StrContent(JsonObject), EmptyMap),
     ResultRecord(NoField, Absent, Absent, Absent, KeyZ :> Seven)}

(* The items of a record as a dict; a nested dict is kept as NestedValue.  *)
TopLevelFields(result) ==
    LET Field(key, value) == IF value = NoField THEN EmptyMap ELSE key :> value
        Nested(key, content) ==
          CASE content.kind = "absent" -> EmptyMap
            [] content.kind = "str" -> key :> content.text
            [] OTHER -> key :> NestedValue
    IN Field(<<"f", "i", "l", "e", "_", "i", "d">>, result.file_id)
         @@ Field(<<"f", "i", "l", "e", "_", "n", "a", "m", "e">>, result.file_name)
         @@ Nested(<<"r", "e", "s", "u", "l", "t", "_", "d", "a", "t", "a">>,
                   result.result_data)
         @@ Nested(<<"r", "e", "s", "u", "l", "t">>, result.result)
         @@ Nested(<<"a", "p", "i", "_", "r", "e", "s", "p", "o", "n", "s", "e">>,
                   result.answer)
         @@ result.fields

(* metadata_application.py:76-84 and 99-106: the metadata kept for a       *)
(* record.                                                                 *)
RecordMetadata(result) ==
    IF Truthy(result.result) THEN result.result
    ELSE IF result.answer.kind # "absent" THEN result.answer
    ELSE LET items == TopLevelFields(result)
         IN DictContent(Restrict(items,
              {k \in DOMAIN items :
                 /\ k \notin {<<"f", "i", "l", "e", "_", "i", "d">>,
                              <<"f", "i", "l", "e", "_", "n", "a", "m", "e">>}
                 /\ ~StartsWith(k, <<"_">>)}))

(* The three collections a resolver fills.                                 *)
NoTargets ==
    [available_file_ids |-> <<>>, file_id_to_file_name |-> EmptyMap,
     file_id_to_metadata |-> EmptyMap]

(* available_file_ids.append(file_id), with the name and the metadata of   *)
(* the source when it has them.                                            *)
AddTarget(r, file_id, file_name, metadata) ==
    [available_file_ids |-> Append(r.available_file_ids, file_id),
     file_id_to_file_name |->
       IF file_name = NoField THEN r.file_id_to_file_name
       ELSE Put(r.file_id_to_file_name, file_id, file_name),
     file_id_to_metadata |->
       IF metadata.kind = "none" THEN r.file_id_to_metadata
       ELSE Put(r.file_id_to_metadata, file_id, metadata)]

(* metadata_application.py:51-60 *)
RECURSIVE SeedSelected(_, _)
SeedSelected(r, selected) ==
    IF selected = <<>> THEN r
    ELSE LET file_info == Head(selected)
         IN SeedSelected(IF file_info.id = <<>> THEN r
                         ELSE AddTarget(r, file_info.id, file_info.name,
                                        [kind |-> "none"]),
                         Tail(selected))

(* metadata_application.py:63-107 *)
RECURSIVE FromExtractionResults(_, _)
FromExtractionResults(r, items) ==
    IF items = <<>> THEN r
    ELSE LET key == Head(items).key
             result == Head(items).value
             file_id == IF IsDigit(key) THEN key ELSE result.file_id
         IN FromExtractionResults(
              IF file_id = NoField \/ InSeq(file_id, r.available_file_ids) THEN r
              ELSE AddTarget(r, file_id, result.file_name, RecordMetadata(result)),
              Tail(items))

(* metadata_application.py:110-124 *)
RECURSIVE FromProcessingResults(_, _)
FromProcessingResults(r, items) ==
    IF items = <<>> THEN r
    ELSE LET file_id == Head(items).key
             result == Head(items).value
         IN FromProcessingResults(
              IF InSeq(file_id, r.available_file_ids) THEN r
              ELSE AddTarget(r, file_id, result.file_name, result.result),
              Tail(items))

(* Mutant of Dedupe: the list is left as it was filled.                    *)
DedupeNone(ids) == ids

(* list(dict.fromkeys(available_file_ids)) *)
RECURSIVE Dedupe(_)
Dedupe(ids) ==
    IF ids = <<>> THEN <<>>
    ELSE LET front == Dedupe(SubSeq(ids, 1, Len(ids) - 1))
             last == ids[Len(ids)]
         IN IF InSeq(last, front) THEN front ELSE Append(front, last)

(* Mutant of Resolve: the extraction records are read before the selected *)
(* files.                                                                  *)
ResolveRecordsFirst(state) ==
    LET r == FromProcessingResults(
               SeedSelected(
                 FromExtractionResults(NoTargets, state.extraction_results),
                 state.selected_files),
               state.processing_results)
    IN [r EXCEPT !.available_file_ids = Dedupe(r.available_file_ids)]

(* metadata_application.py:45-127 *)
Resolve(state) ==
    LET r == FromProcessingResults(
               FromExtractionResults(
                 SeedSelected(NoTargets, state.selected_files),
                 state.extraction_results),
               state.processing_results)
    IN [r EXCEPT !.available_file_ids = Dedupe(r.available_file_ids)]

(* enhanced.py:105-122 and enhanced_fixed.py:139-155: the file id of a     *)
(* key, the key itself or the digits between its first parentheses.        *)
KeyFileId(key) ==
    IF IsDigit(key) THEN key
    ELSE IF InSeq("(", key) /\ InSeq(")", key)
    THEN LET open == CHOOSE i \in 1..Len(key) :
                       key[i] = "(" /\ \A j \in 1..(i - 1) : key[j] # "("
             close == CHOOSE i \in 1..Len(key) :
                        key[i] = ")" /\ \A j \in 1..(i - 1) : key[j] # ")"
         IN IF close > open + 1 /\ IsDigit(SubSeq(key, open + 1, close - 1))
            THEN SubSeq(key, open + 1, close - 1)
            ELSE NoField
    ELSE NoField

(* enhanced.py:128-134, the name of the record or the part of the key      *)
(* before "(" (the keys here have no blanks to strip).                     *)
KeyFileName(key, result) ==
    IF result.file_name # NoField THEN result.file_name
    ELSE IF InSeq("(", key) /\ InSeq(")", key)
    THEN SubSeq(key, 1, (CHOOSE i \in 1..Len(key) :
                           key[i] = "(" /\ \A j \in 1..(i - 1) : key[j] # "(") - 1)
    ELSE NoField

(* enhanced.py:136-155: as RecordMetadata, with a str answer parsed.       *)
RecordMetadataDirect(result) ==
    IF Truthy(result.result) \/ result.answer.kind # "str"
    THEN RecordMetadata(result)
    ELSE LET parsed == JsonLoads(result.answer.text)
         IN CASE parsed.kind = "dict" -> DictContent(parsed.dict)
              [] parsed.kind = "other" ->
                   [kind |-> "other", dict |-> EmptyMap, text |-> <<>>]
              [] OTHER -> DictContent(ExtractedTextKey :> result.answer.text)

(* enhanced.py:102-158 *)
RECURSIVE FromExtractionResultsDirect(_, _)
FromExtractionResultsDirect(r, items) ==
    IF items = <<>> THEN r
    ELSE LET key == Head(items).key
             result == Head(items).value
             file_id == KeyFileId(key)
         IN FromExtractionResultsDirect(
              IF file_id = NoField \/ InSeq(file_id, r.available_file_ids) THEN r
              ELSE AddTarget(r, file_id, KeyFileName(key, result),
                             RecordMetadataDirect(result)),
              Tail(items))

(* enhanced.py:80-307. The loops over results_filter and over state keys *)
(* api_response_* (199-304) find nothing: results_filter is the str of     *)
(* results_viewer.py:56-65 and no module stores such keys.                 *)
ResolveDirect(state) ==
    LET r == FromProcessingResults(
               FromExtractionResultsDirect(
                 SeedSelected(NoTargets, state.selected_files),
                 state.extraction_results),
               state.processing_results)
    IN [r EXCEPT !.available_file_ids = Dedupe(r.available_file_ids)]

(* enhanced_fixed.py:131-171: the whole record is the metadata of its id,  *)
(* also of an id that was already listed.                                  *)
RECURSIVE FromExtractionResultsFixed(_, _)
FromExtractionResultsFixed(r, items) ==
    IF items = <<>> THEN r
    ELSE LET key == Head(items).key
             result == Head(items).value
             file_id == KeyFileId(key)
             listed == IF InSeq(file_id, r.available_file_ids) THEN r
                       ELSE AddTarget(r, file_id, KeyFileName(key, result),
                                      [kind |-> "none"])
         IN FromExtractionResultsFixed(
              IF file_id = NoField THEN r
              ELSE [listed EXCEPT !.file_id_to_metadata =
                      Put(@, file_id, DictContent(TopLevelFields(result)))],
              Tail(items))

(* enhanced_fixed.py:86-216. With a non-empty processing_state["results"]  *)
(* line 119 reads the unbound names metadata_found and result: NameError,  *)
(* the page shows no target list. No module stores table_data (174-198).   *)
ResolveFixed(state) ==
    LET r == FromExtractionResultsFixed(
               SeedSelected(NoTargets, state.selected_files),
               state.extraction_results)
        ids == Dedupe(r.available_file_ids)
    IN IF DOMAIN r.file_id_to_metadata = {}
       THEN [r EXCEPT !.available_file_ids = ids,
                      !.file_id_to_metadata =
                         [f \in {ids[i] : i \in 1..Len(ids)} |->
                            DictContent(DefaultMetadata(
                              IF f \in DOMAIN r.file_id_to_file_name
                              THEN r.file_id_to_file_name[f]
                              ELSE <<"F", "i", "l", "e", " ">> \o f))]]
       ELSE [r EXCEPT !.available_file_ids = ids]

(* metadata_application.py:295-315: without an entry in                    *)
(* file_id_to_metadata every record with the file's "file_id" adds its     *)
(* values, a later record over an earlier one.                             *)
RECURSIVE ValuesFromResults(_, _)
ValuesFromResults(items, file_id) ==
    IF items = <<>> THEN EmptyMap
    ELSE LET earlier == ValuesFromResults(SubSeq(items, 1, Len(items) - 1), file_id)
             result == items[Len(items)].value
         IN IF result.file_id = file_id
            THEN ValuesFromRecord(ExtractionRecord(result.result, result.answer))
                   @@ earlier
            ELSE earlier

(* metadata_application.py:270-315: the metadata_values of one target.     *)
MetadataValues(state, r, file_id) ==
    IF file_id \in DOMAIN r.file_id_to_metadata
    THEN ValuesFromContent(r.file_id_to_metadata[file_id])
    ELSE ValuesFromResults(state.extraction_results, file_id)

(* enhanced.py:658-675 (all is TRUE) and 621-652 (all is FALSE, only keys  *)
(* that contain str(file_id)): the first record that gives a dict.         *)
RECURSIVE FirstMetadata(_, _, _)
FirstMetadata(items, file_id, all) ==
    IF items = <<>> THEN EmptyMap
    ELSE LET key == Head(items).key
             value == Head(items).value
             rest == FirstMetadata(Tail(items), file_id, all)
             FromAnswer ==
               IF value.answer.kind = "dict" THEN value.answer.dict
               ELSE IF /\ value.answer.kind = "str"
                       /\ JsonLoads(value.answer.text).kind = "dict"
                    THEN JsonLoads(value.answer.text).dict
               ELSE rest
         IN IF ~all /\ ~Contains(key, file_id) THEN rest
            ELSE IF ~all /\ value.result.kind # "absent"
                 THEN IF value.result.kind = "dict" THEN value.result.dict ELSE rest
            ELSE IF value.answer.kind # "absent" THEN FromAnswer
            ELSE rest

(* enhanced.py:590-687: the metadata_values of one target at the Apply     *)
(* click.                                                                  *)
MetadataValuesDirect(state, r, file_id, debug_mode) ==
    LET own == IF file_id \in DOMAIN r.file_id_to_metadata
               THEN ValuesFromContent(r.file_id_to_metadata[file_id])
               ELSE EmptyMap
        keyed == IF DOMAIN own # {} THEN own
                 ELSE FirstMetadata(state.extraction_results, file_id, FALSE)
        any == IF DOMAIN keyed # {} THEN keyed
               ELSE FirstMetadata(state.extraction_results, file_id, TRUE)
    IN IF DOMAIN any = {} /\ debug_mode
       THEN (<<"t", "e", "s", "t", "_", "k", "e", "y">> :> <<"t", "e", "s", "t", "_", "v", "a", "l", "u", "e">>)
              @@ (<<"f", "i", "l", "e", "_", "i", "d">> :> file_id)
              @@ (<<"f", "i", "l", "e", "_", "n", "a", "m", "e">> :>
                    IF file_id \in DOMAIN r.file_id_to_file_name
                    THEN r.file_id_to_file_name[file_id]
                    ELSE <<"U", "n", "k", "n", "o", "w", "n">>)
       ELSE any

(* The session collections the resolvers read, each in the order of its   *)
(* insertion. selected_files has an entry per file and one without an id.  *)
(* The keys of extraction_results are a file id, "<id>_s" for a key such   *)
(* as "111_structured", "f(<id>)" for a key with the id in parentheses and *)
(* a key without an id; they are distinct, and a stored record carries, if *)
(* any, the file id its key names.                                         *)
Sessions ==
    LET SeqsUpTo(S, n) == UNION {[1..m -> S] : m \in 0..n}
        SelectedEntries ==
          {[id |-> FileOne, name |-> <<"s", "1">>],
           [id |-> FileEleven, name |-> <<"s", "2">>],
           [id |-> <<>>, name |-> <<"s", "3">>]}
        ResultKeys ==
          {FileOne, FileEleven, FileOne \o <<"_", "s">>,
           <<"f", "(">> \o FileOne \o <<")">>, <<"x">>}
    IN
    {[selected_files |-> selected, extraction_results |-> results,
      processing_results |-> processing] :
       selected \in SeqsUpTo(SelectedEntries, MaxSelected),
       results \in {items \in SeqsUpTo(
                      {[key |-> key, value |-> value] :
                         key \in ResultKeys, value \in ResultRecords},
                      MaxRecords) :
                     /\ \A i, j \in 1..Len(items) :
                          items[i].key = items[j].key => i = j
                     /\ \A i \in 1..Len(items) :
                          \/ items[i].value.file_id = NoField
                          \/ items[i].key = <<"x">>
                          \/ StartsWith(items[i].key, items[i].value.file_id)
                               /\ (IsDigit(items[i].key)
                                     => items[i].key = items[i].value.file_id)
                          \/ KeyFileId(items[i].key) = items[i].value.file_id},
       processing \in
         {<<>>,
          <<[key |-> <<"2">>,
             value |-> [file_name |-> <<"p">>,
                        result |-> DictContent(KeyA :> Seven)]]>>}}

NoLookup == [variant |-> "none", debug_mode |-> FALSE, values |-> EmptyMap]

NotResolved == [variant |-> "none", raised |-> FALSE, r |-> NoTargets]

(* metadata_application.py:32-127: the page is rendered.                   *)
ApplyMetadataPage ==
    /\ session.extraction_results # <<>>
    /\ targets' = [variant |-> "application", raised |-> FALSE,
                   r |-> Resolve(session)]
    /\ lookup' = NoLookup
    /\ UNCHANGED <<session, xvars, avars, wvars, fvars, vvars>>

(* enhanced.py:69-307 *)
ApplyMetadataDirectPage ==
    /\ session.extraction_results # <<>>
    /\ targets' = [variant |-> "enhanced", raised |-> FALSE,
                   r |-> ResolveDirect(session)]
    /\ lookup' = NoLookup
    /\ UNCHANGED <<session, xvars, avars, wvars, fvars, vvars>>

(* enhanced_fixed.py:86-216 *)
ApplyMetadataFixedPage ==
    /\ targets' = IF session.processing_results # <<>>
                  THEN [variant |-> "enhanced_fixed", raised |-> TRUE,
                        r |-> NoTargets]
                  ELSE [variant |-> "enhanced_fixed", raised |-> FALSE,
                        r |-> ResolveFixed(session)]
    /\ lookup' = NoLookup
    /\ UNCHANGED <<session, xvars, avars, wvars, fvars, vvars>>

(* metadata_application.py:253-325, for every target of the batch.         *)
LookupMetadata ==
    /\ targets.variant = "application"
    /\ lookup = NoLookup
    /\ targets.r.available_file_ids # <<>>
    /\ lookup' = [variant |-> "application", debug_mode |-> FALSE,
                  values |-> [f \in {targets.r.available_file_ids[i] :
                                         i \in 1..Len(targets.r.available_file_ids)} |->
                                MetadataValues(session, targets.r, f)]]
    /\ UNCHANGED <<session, targets, xvars, avars, wvars, fvars, vvars>>

(* enhanced.py:569-687, the Apply click, for every target.                 *)
LookupMetadataDirect ==
    /\ targets.variant = "enhanced"
    /\ lookup = NoLookup
    /\ targets.r.available_file_ids # <<>>
    /\ \E debug_mode \in BOOLEAN :
         lookup' = [variant |-> "enhanced", debug_mode |-> debug_mode,
                    values |-> [f \in {targets.r.available_file_ids[i] :
                                           i \in 1..Len(targets.r.available_file_ids)} |->
                                  MetadataValuesDirect(session, targets.r, f,
                                                       debug_mode)]]
    /\ UNCHANGED <<session, targets, xvars, avars, wvars, fvars, vvars>>

(***************************************************************************)
(* The stored extraction results under the results view and under the      *)
(* Apply click of the direct variant: modules/results_viewer.py and        *)
(* modules/direct_metadata_application_enhanced.py                         *)
(***************************************************************************)

(* What processing.py:458-462 leaves in extraction_results: one record per *)
(* file under its file id, with a dict "result" and neither "result_data"  *)
(* nor "api_response". The values of a result are str, None or a list; the *)
(* files are those of selected_files, or selected_files is empty.          *)
ViewSessions ==
    LET Results == {KeyA :> Seven, KeyA :> NoneValue,
                    (KeyA :> Seven) @@ (KeyZ :> ListValue),
                    (KeyInternal :> NoneValue) @@ (KeyA :> Nine)}
        Item(file_id, result) ==
          [key |-> file_id,
           value |-> [file_id |-> file_id, file_name |-> <<"r">> \o file_id,
                      result_data |-> Absent, result |-> DictContent(result),
                      answer |-> Absent, fields |-> EmptyMap]]
        Selected(items) ==
          [i \in 1..Len(items) |-> [id |-> items[i].key, name |-> <<"s">> \o items[i].key]]
        Kept == {<<Item(f, d)>> : f \in {FileOne, FileEleven}, d \in Results}
                  \cup {<<Item(FileEleven, d), Item(FileOne, e)>> :
                          d \in Results, e \in Results}
    IN UNION {{[selected_files |-> selected, extraction_results |-> items,
                processing_results |-> <<>>] :
                 selected \in {<<>>, Selected(items)}} : items \in Kept}

(* results_viewer.py:258-270: what the edit widget of a field returns in a *)
(* run in which the user did not touch it: the multiselect its default     *)
(* list, the text input the text str(value) it was given.                  *)
WidgetDefault(value) == IF value = ListValue THEN value ELSE Str(value)

(* results_viewer.py:197-284 for every stored record: typed holds the      *)
(* fields of record i the user has changed; every shown field whose widget *)
(* returns something other than the stored value is written back (272-283).*)
Rendered(items, i, typed) ==
    [n \in 1..Len(items) |->
       LET result == items[n].value.result
           shown == {k \in DOMAIN result.dict :
                       ~StartsWith(k, <<"_">>) /\ k # ExtractedTextKey}
       IN IF ~Truthy(result) THEN items[n]
          ELSE [items[n] EXCEPT !.value.result.dict =
                  [k \in DOMAIN result.dict |->
                     IF k \notin shown THEN result.dict[k]
                     ELSE IF n = i /\ k \in DOMAIN typed THEN typed[k]
                     ELSE WidgetDefault(result.dict[k])]]]

(* results_viewer.py:46-51 and 197-284: the page is rendered and the user  *)
(* changes nothing.                                                        *)
ViewResults ==
    /\ session.extraction_results # <<>>
    /\ session' = [session EXCEPT !.extraction_results = Rendered(@, 0, EmptyMap)]
    /\ operation' = [name |-> "view_results", keys |-> {}]
    /\ UNCHANGED <<targets, lookup, session_state, xvars, avars, wvars, fvars>>

(* results_viewer.py:266-283: the user types a new text into one field of  *)
(* one record; the run renders the other fields as well.                   *)
EditResult ==
    /\ \E i \in 1..Len(session.extraction_results) :
         \E k \in DOMAIN session.extraction_results[i].value.result.dict :
           \E new_value \in {Seven, Nine} :
              /\ ~StartsWith(k, <<"_">>)
              /\ session.extraction_results[i].value.result.dict[k] # ListValue
              /\ new_value # WidgetDefault(session.extraction_results[i].value.result.dict[k])
              /\ session' = [session EXCEPT !.extraction_results =
                                              Rendered(@, i, k :> new_value)]
              /\ operation' = [name |-> "edit", keys |-> {k}]
    /\ UNCHANGED <<targets, lookup, session_state, xvars, avars, wvars, fvars>>

(* enhanced.py:594-652 over records that all have a dict "result": the     *)
(* position of the record whose "result" dict is the very object bound to  *)
(* metadata_values (line 633), 0 when metadata_values is a dict of its own *)
(* (598-602).                                                              *)
SharedResult(items, r, file_id) ==
    LET own == IF file_id \in DOMAIN r.file_id_to_metadata
               THEN ValuesFromContent(r.file_id_to_metadata[file_id])
               ELSE EmptyMap
        keyed == {i \in 1..Len(items) : Contains(items[i].key, file_id)}
    IN IF DOMAIN own # {} \/ keyed = {} THEN 0
       ELSE CHOOSE i \in keyed : \A j \in keyed : i <= j

(* enhanced.py:569-709 with apply_metadata_to_file_direct (439-566) for    *)
(* every target. The filter (462-477) and the key normalization (488-494)  *)
(* each bind metadata_values to a new dict; without them lines 496-499     *)
(* assign str(value) for every value that is not a str, int, float or bool *)
(* into the dict that was passed in.                                       *)
ApplyMetadataDirectClick ==
    /\ session.extraction_results # <<>>
    /\ \E normalize_keys \in BOOLEAN, filter_placeholders \in BOOLEAN :
         LET r == ResolveDirect(session)
             shared == {SharedResult(session.extraction_results, r,
                                     r.available_file_ids[t]) :
                          t \in 1..Len(r.available_file_ids)}
         IN /\ session' = [session EXCEPT !.extraction_results =
                 [n \in 1..Len(@) |->
                    IF n \in shared /\ ~normalize_keys /\ ~filter_placeholders
                    THEN [@[n] EXCEPT !.value.result.dict = Stringified(@)]
                    ELSE @[n]]]
            /\ operation' = [name |-> "apply_metadata_direct",
                             keys |-> IF normalize_keys \/ filter_placeholders
                                      THEN {} ELSE shared \ {0}]
    /\ UNCHANGED <<targets, lookup, session_state, xvars, avars, wvars, fvars>>

(***************************************************************************)
(* Session state initialization: initialize_session_state of app.py and of *)
(* modules/metadata_application.py                                         *)
(***************************************************************************)

(* app.py:43-141, the value each "if not hasattr(...)" block assigns.      *)
AppDefaults ==
    [authenticated |-> FALSE, client |-> "None", current_page |-> "Home",
     selected_files |-> <<>>,
     metadata_config |-> [extraction_method |-> "freeform", batch_size |-> 5],
     extraction_results |-> EmptyMap, selected_result_ids |-> <<>>,
     application_state |-> InitialApplicationState,
     processing_state |-> InitialProcessingState(0),
     debug_info |-> <<>>, metadata_templates |-> EmptyMap,
     feedback_data |-> EmptyMap,
     document_categorization |-> [is_categorized |-> FALSE, total_files |-> 0]]

(* metadata_application.py:564-631, the value each "if ... not in          *)
(* st.session_state" block assigns; its processing_state has no retries,   *)
(* max_retries or retry_delay.                                             *)
ApplicationDefaults ==
    [authenticated |-> FALSE, client |-> "None", current_page |-> "Home",
     selected_files |-> <<>>,
     metadata_config |-> [extraction_method |-> "freeform", batch_size |-> 5],
     extraction_results |-> EmptyMap, selected_result_ids |-> <<>>,
     application_state |-> InitialApplicationState,
     processing_state |->
       [is_processing |-> FALSE, current_file_index |-> -1, total_files |-> 0,
        processed_files |-> 0, results |-> EmptyMap, errors |-> EmptyMap],
     debug_info |-> EmptyMap, metadata_templates |-> <<>>,
     feedback_data |-> EmptyMap, auth_credentials |-> EmptyMap]

(* Mutant of FillAbsent: every key is assigned its default.                *)
FillAbsentOverwrite(state, defaults) == defaults @@ state

(* One "if key not in st.session_state: st.session_state.key = default"    *)
(* per key of defaults.                                                    *)
FillAbsent(state, defaults) == state @@ defaults

(* app.py:37-147, run at the top of every script run.                      *)
InitializeSessionState ==
    /\ session_state' = FillAbsent(session_state, AppDefaults)
    /\ operation' = [name |-> "initialize_session_state",
                     keys |-> DOMAIN AppDefaults \ DOMAIN session_state]
    /\ UNCHANGED <<xvars, avars, wvars, fvars, rvars>>

(* metadata_application.py:22 and 559-631, run when the apply page is      *)
(* rendered.                                                               *)
InitializeSessionStateApplication ==
    /\ session_state' = FillAbsent(session_state, ApplicationDefaults)
    /\ operation' = [name |-> "initialize_session_state",
                     keys |-> DOMAIN ApplicationDefaults \ DOMAIN session_state]
    /\ UNCHANGED <<xvars, avars, wvars, fvars, rvars>>

(* What the pages assign after the initialization: the login, the          *)
(* navigation (app.py:150-152), the results stored by an extraction, and   *)
(* the states of a running extraction (processing.py:422-435) and of a     *)
(* running application (metadata_application.py:414-421).                  *)
PageWrites ==
    {[authenticated |-> TRUE, client |-> "client"],
     [current_page |-> "Process Files"],
     [current_page |-> "Apply Metadata"],
     [selected_files |-> <<1>>],
     [extraction_results |-> 1 :> (KeyA :> Seven)],
     [processing_state |-> ResetProcessingState(InitialProcessingState(0), <<1>>)],
     [application_state |-> RunningApplicationState(1)]}

(* A script run in which a page assigns session variables; app.py:147 has  *)
(* initialized the session before any page runs.                           *)
PageWrite ==
    /\ DOMAIN AppDefaults \subseteq DOMAIN session_state
    /\ \E written \in PageWrites :
         /\ session_state' = written @@ session_state
         /\ operation' = [name |-> "page", keys |-> DOMAIN written]
    /\ UNCHANGED <<xvars, avars, wvars, fvars, rvars>>

(* modules/test_session_state.py:157-160: the test page deletes            *)
(* extraction_results.                                                     *)
DeleteExtractionResults ==
    /\ "extraction_results" \in DOMAIN session_state
    /\ session_state' = Restrict(session_state,
                                 DOMAIN session_state \ {"extraction_results"})
    /\ operation' = [name |-> "delete", keys |-> {"extraction_results"}]
    /\ UNCHANGED <<xvars, avars, wvars, fvars, rvars>>

RIdle ==
    /\ session = [selected_files |-> <<>>, extraction_results |-> <<>>,
                  processing_results |-> <<>>]
    /\ targets = NotResolved
    /\ lookup = NoLookup

(* No operation on the session was the last step.                         *)
NoOperation == [name |-> "none", keys |-> {}]

VIdle ==
    /\ session_state = EmptyMap
    /\ operation = NoOperation

WIdle ==
    /\ remote = NoInstance
    /\ requests = <<>>
    /\ file_result = FileResult(FALSE, "none")
    /\ given = NoGiven
    /\ writes = 0

XIdle ==
    /\ selected_files = <<>>
    /\ processing_state = InitialProcessingState(0)
    /\ attempts = [f \in FileIds |-> 0]
    /\ max_retries_fixed = TRUE

AIdle ==
    /\ available_file_ids = <<>>
    /\ application_state = InitialApplicationState
    /\ threads = [r \in 1..MaxRuns |-> NoThread]
    /\ started = 0

(* The apply page rendered over a non-empty resolved target list; line 146 *)
(* has written total_files.                                                *)
AInit ==
    /\ \E n \in 1..MaxTargets : available_file_ids = [k \in 1..n |-> k]
    /\ application_state = [InitialApplicationState EXCEPT !.total_files = Total]
    /\ threads = [r \in 1..MaxRuns |-> NoThread]
    /\ started = 0
    /\ XIdle
    /\ WIdle
    /\ FIdle
    /\ RIdle
    /\ VIdle

ANext ==
    \/ ApplyClick
    \/ CancelClick
    \/ ResetClick
    \/ \E r \in RunIds : ThreadStart(r)
    \/ \E r \in RunIds : BatchLoop(r)
    \/ \E r \in RunIds : TaskFinish(r)
    \/ \E r \in RunIds : Collect(r)
    \/ \E r \in RunIds : Record(r)
    \/ \E r \in RunIds : IncrWrite(r)
    \/ \E r \in RunIds : Join(r)

SpecApply == AInit /\ [][ANext]_vars

WInit ==
    /\ remote \in {NoInstance} \cup {Instance(d) : d \in RemoteDicts}
    /\ requests = <<>>
    /\ file_result = FileResult(FALSE, "none")
    /\ given = NoGiven
    /\ writes = 0
    /\ XIdle
    /\ AIdle
    /\ FIdle
    /\ RIdle
    /\ VIdle

WNext ==
    \/ ApplyMetadataToFile
    \/ ApplyMetadataToFileDirect
    \/ ApplyMetadataFixed

SpecWrite == WInit /\ [][WNext]_vars

XInit ==
    /\ AIdle
    /\ WIdle
    /\ FIdle
    /\ RIdle
    /\ VIdle
    /\ \E n \in 1..MaxFiles : selected_files = [i \in 1..n |-> i]
    /\ processing_state = InitialProcessingState(Len(selected_files))
    /\ attempts = [f \in FileIds |-> 0]
    /\ max_retries_fixed = TRUE

XNext ==
    \/ StartProcessing
    \/ CancelProcessing
    \/ ProcessNext
    \/ ChangeMaxRetries
    \/ ChangeRetryDelay

SpecExtract == XInit /\ [][XNext]_vars

(* The extraction with a user who never clicks Cancel.                     *)
XNextNoCancel ==
    \/ StartProcessing
    \/ ProcessNext
    \/ ChangeMaxRetries
    \/ ChangeRetryDelay

(* processing.py:487 and 510: every processing step ends in st.rerun(),    *)
(* which starts the next script run; process_file returns in each.         *)
SpecExtractLive == XInit /\ [][XNextNoCancel]_vars /\ WF_vars(ProcessNext)

FInit ==
    /\ FIdle
    /\ RIdle
    /\ VIdle
    /\ XIdle
    /\ AIdle
    /\ WIdle

FNext ==
    \/ StartExtraction
    \/ ProcessFileStep
    \/ SubmitFeedback
    \/ SetExtractionMethod

SpecFeedback == FInit /\ [][FNext]_vars


RInit ==
    /\ session \in Sessions
    /\ targets = NotResolved
    /\ lookup = NoLookup
    /\ XIdle
    /\ AIdle
    /\ WIdle
    /\ FIdle
    /\ VIdle

RNext ==
    \/ ApplyMetadataPage
    \/ ApplyMetadataDirectPage
    \/ ApplyMetadataFixedPage
    \/ LookupMetadata
    \/ LookupMetadataDirect

SpecResolve == RInit /\ [][RNext]_vars

VInit ==
    /\ session \in ViewSessions
    /\ targets = NotResolved
    /\ lookup = NoLookup
    /\ VIdle
    /\ XIdle
    /\ AIdle
    /\ WIdle
    /\ FIdle

VNext ==
    \/ ViewResults
    \/ EditResult
    \/ ApplyMetadataDirectClick

SpecView == VInit /\ [][VNext]_vars

(* A new browser session: st.session_state has no key.                     *)
SInit ==
    /\ VIdle
    /\ RIdle
    /\ XIdle
    /\ AIdle
    /\ WIdle
    /\ FIdle

SNext ==
    \/ InitializeSessionState
    \/ InitializeSessionStateApplication
    \/ PageWrite
    \/ DeleteExtractionResults

SpecSession == SInit /\ [][SNext]_vars

(***************************************************************************)
(* Properties of the extraction retry loop                                 *)
(***************************************************************************)

(* C1: with max_retries fixed during the run, a file whose every attempt   *)
(* failed has been attempted exactly max_retries + 1 times when its entry  *)
(* is in processing_state.errors, the entry records retries = max_retries, *)
(* and no entry is written before that many attempts.                      *)
C1_RetryCount ==
    max_retries_fixed =>
      \A f \in FileIds :
        /\ f \in DOMAIN processing_state.errors =>
             /\ attempts[f] = processing_state.max_retries + 1
             /\ processing_state.errors[f].retries = processing_state.max_retries
        /\ (f \notin DOMAIN processing_state.errors
              /\ f \notin DOMAIN processing_state.results) =>
             attempts[f] <= processing_state.max_retries

(* A run with max_retries fixed and at least one retry has written a       *)
(* terminal error.                                                         *)
C1_Witness ==
    /\ max_retries_fixed
    /\ processing_state.max_retries >= 1
    /\ processing_state.errors # EmptyMap

(***************************************************************************)
(* Properties of the batch application engine                              *)
(***************************************************************************)

AllTargets == {available_file_ids[k] : k \in 1..Total}

(* C2: in every state, each apply_metadata_batch execution has at most     *)
(* batch_size tasks submitted and not yet finished.                        *)
C2_InFlightBounded ==
    \A r \in 1..MaxRuns :
      Cardinality(InFlight(threads[r])) <= threads[r].batch_size

(* A full batch of two tasks in flight, with more targets than the batch.  *)
C2_Witness ==
    \E r \in 1..MaxRuns :
      /\ threads[r].batch_size >= 2
      /\ Total > threads[r].batch_size
      /\ Cardinality(InFlight(threads[r])) = threads[r].batch_size

(* C3: the tasks are submitted in consecutive batches of batch_size in     *)
(* list order, and while a task of a later batch is submitted every task   *)
(* of an earlier batch has finished, whether the earlier batch was read to *)
(* its end or left on cancellation.                                        *)
C3_BatchesInOrder ==
    \A r \in 1..MaxRuns :
      LET t == threads[r] IN
      \A k \in DOMAIN t.batch_of :
        t.batch_of[k] # 0 =>
          /\ t.batch_of[k] = ((k - 1) \div t.batch_size) + 1
          /\ \A j \in 1..k : t.batch_of[j] # 0
          /\ \A j \in DOMAIN t.batch_of :
               (t.batch_of[j] # 0 /\ t.batch_of[j] < t.batch_of[k])
                 => t.future[j] = "done"

(* A thread that left a batch on cancellation has submitted a later batch. *)
C3_Witness ==
    \E r \in 1..MaxRuns :
      /\ threads[r].stopped
      /\ threads[r].batch_no >= 2
      /\ InFlight(threads[r]) # {}

(* C4 as claimed: outside the installation of a fresh state dict,          *)
(* applied_files changes only by +1, never exceeds total_files, and is     *)
(* total_files when a thread ends that no Cancel click interrupted.        *)
C4_AppliedMonotonicToTotal ==
    [][ \/ application_state' = RunningApplicationState(Total)
        \/ application_state' = ResetApplicationState(Total)
        \/ /\ application_state'.applied_files \in
                {application_state.applied_files,
                 application_state.applied_files + 1}
           /\ application_state'.applied_files <= application_state'.total_files
           /\ \A r \in 1..MaxRuns :
                (threads[r].pc # "done" /\ threads'[r].pc = "done"
                   /\ ~threads'[r].cancelled)
                  => application_state'.applied_files = Total ]_vars

(* C5 as claimed: a thread that was running when Cancel was clicked        *)
(* records nothing afterwards and submits nothing afterwards.              *)
C5_NothingAfterCancel ==
    [][ \A r \in 1..MaxRuns :
          threads[r].cancelled =>
            /\ ~(threads[r].pc = "record" /\ threads'[r].pc # "record")
            /\ InFlight(threads'[r]) \subseteq InFlight(threads[r]) ]_vars

Dispatching(t) == InFlight(t) # {}

Recording(t) == t.pc \in {"record", "incr_write"}

(* C6 as claimed: no state has two apply_metadata_batch executions that    *)
(* are dispatching tasks or recording results.                             *)
C6_OneLiveRun ==
    \A r1, r2 \in 1..MaxRuns :
      (r1 # r2) =>
        ~(/\ Dispatching(threads[r1]) \/ Recording(threads[r1])
          /\ Dispatching(threads[r2]) \/ Recording(threads[r2]))

(* C7: a failed task is stored in application_state.errors under its       *)
(* file_id and the thread goes on; a thread that ends without having seen  *)
(* the flag false or a failed re-verification has recorded every target.   *)
C7_FailureIsolated ==
    [][ \A r \in 1..MaxRuns :
          /\ (threads[r].pc = "record" /\ threads[r].outcome = "error"
                /\ threads'[r].pc # "record")
               => /\ available_file_ids[threads[r].cur]
                       \in DOMAIN application_state'.errors
                  /\ threads'[r].pc = "incr_write"
          /\ (threads'[r].pc = "done" /\ ~threads'[r].stopped)
               => threads'[r].recorded = AllTargets ]_vars

(* A thread has ended normally with a failed target in errors and a target *)
(* of a later batch in results.                                            *)
C7_Witness ==
    \E r \in 1..MaxRuns :
      /\ threads[r].pc = "done"
      /\ ~threads[r].stopped
      /\ threads[r].recorded = AllTargets
      /\ started = 1
      /\ \E f \in DOMAIN application_state.errors,
            g \in DOMAIN application_state.results : f < g

(***************************************************************************)
(* Properties of the per-file remote write                                 *)
(***************************************************************************)

CaseInsensitiveAlreadyExists(text) ==
    \E i \in 0..(Len(text) - Len(AlreadyExistsText)) :
      \A j \in 1..Len(AlreadyExistsText) :
        LowerChar(text[i + j]) = AlreadyExistsText[j]

OneReplacePerKey(operations, payload) ==
    /\ Len(operations) = Cardinality(DOMAIN payload)
    /\ \A k \in DOMAIN payload :
         \E i \in 1..Len(operations) :
           operations[i] = [op |-> "replace", path |-> <<"/">> \o k,
                            value |-> payload[k]]

(* C8: the first remote call of a per-file apply is a create in            *)
(* global/properties; an update follows if and only if the create was      *)
(* refused with a text containing "already exists" in any letter case, and *)
(* it carries exactly one replace operation per payload key with path      *)
(* "/<key>"; the file is a success exactly when the create or the fallback *)
(* update succeeded, and any other refused create is an error with no      *)
(* update.                                                                 *)
C8_CreateThenUpdate ==
    LET n == Len(requests) IN
    /\ n <= 2
    /\ n >= 1 =>
         /\ requests[1].op = "create"
         /\ requests[1].scope = "global" /\ requests[1].template = "properties"
         /\ file_result.success <=> requests[n].ok
    /\ (n = 2) <=> (/\ n >= 1
                    /\ ~requests[1].ok
                    /\ CaseInsensitiveAlreadyExists(requests[1].text))
    /\ n = 2 =>
         /\ requests[2].op = "update"
         /\ requests[2].scope = "global" /\ requests[2].template = "properties"
         /\ OneReplacePerKey(requests[2].body, requests[1].body)
    /\ (n = 1 /\ ~requests[1].ok) =>
         file_result = FileResult(FALSE, "Error creating metadata")

(* A create refused with "Already Exists" in mixed case was followed by a  *)
(* successful update of a two-key payload.                                 *)
C8_Witness ==
    /\ Len(requests) = 2
    /\ requests[1].text = ConflictMixed
    /\ Cardinality(DOMAIN requests[1].body) = 2
    /\ requests[2].ok
    /\ file_result.success

(* C9 as claimed: after a successful apply of the mapping M the file's     *)
(* remote key/value set is M, the set a fresh create of M leaves, whether  *)
(* it was reached by create or by the fallback update.                     *)
C9_SameFinalSet ==
    (Len(requests) >= 1 /\ file_result.success)
      => remote = Instance(requests[1].body)

NoMetadataErrors ==
    {"No metadata values found", "No metadata found for this file",
     "No valid metadata found after filtering placeholders"}

EmptyOrAbsent(content) ==
    \/ content.kind = "absent"
    \/ content.kind = "dict" /\ DOMAIN content.dict = {}

(* C10 as claimed: when nothing yields a metadata field for the target     *)
(* (its mapping is empty or absent, and so are the record and the UI       *)
(* data), the apply returns a "no metadata" error and makes no remote      *)
(* call.                                                                   *)
C10_NoMetadataNoWrite ==
    (/\ writes > 0
     /\ given.authenticated
     /\ EmptyOrAbsent(given.content)
     /\ EmptyOrAbsent(given.record.result)
     /\ EmptyOrAbsent(given.record.answer)
     /\ DOMAIN given.options.ui_metadata = {})
      => /\ Len(requests) = 0
         /\ ~file_result.success
         /\ file_result.error \in NoMetadataErrors

(***************************************************************************)
(* Further properties of the batch application engine                      *)
(***************************************************************************)

(* C11 as claimed: when an apply_metadata_batch execution that no Cancel   *)
(* click interrupted ends, every target is in exactly one of results and   *)
(* errors, and the two counts add up to total_files.                       *)
C11_EveryTargetTallied ==
    [][ \A r \in 1..MaxRuns :
          (threads[r].pc # "done" /\ threads'[r].pc = "done"
             /\ ~threads'[r].cancelled)
            => /\ DOMAIN application_state'.results
                    \cap DOMAIN application_state'.errors = {}
               /\ DOMAIN application_state'.results
                    \cup DOMAIN application_state'.errors = AllTargets
               /\ Cardinality(DOMAIN application_state'.results)
                    + Cardinality(DOMAIN application_state'.errors)
                    = application_state'.total_files ]_vars

(***************************************************************************)
(* Further properties of the extraction retry loop                         *)
(***************************************************************************)

RetriesOf(ps, f) == IF f \in DOMAIN ps.retries THEN ps.retries[f] ELSE 0

(* C12: a step that attempts file f, fails (f is not in results) and finds *)
(* f's retry counter below max_retries adds one to the counter and leaves  *)
(* current_file_index, processed_files, results and errors as they were,   *)
(* with the loop still running on the same file.                           *)
C12_RetrySameFile ==
    [][ \A f \in FileIds :
          (/\ attempts'[f] = attempts[f] + 1
           /\ f \notin DOMAIN processing_state'.results
           /\ RetriesOf(processing_state, f) < processing_state'.max_retries)
            => /\ RetriesOf(processing_state', f) = RetriesOf(processing_state, f) + 1
               /\ processing_state'.current_file_index
                    = processing_state.current_file_index
               /\ processing_state'.processed_files = processing_state.processed_files
               /\ processing_state'.results = processing_state.results
               /\ processing_state'.errors = processing_state.errors
               /\ processing_state'.is_processing
               /\ selected_files[processing_state'.current_file_index + 1] = f ]_vars

(* The second file is being retried for the second time after the first    *)
(* file was processed.                                                     *)
C12_Witness ==
    /\ processing_state.is_processing
    /\ processing_state.current_file_index = 1
    /\ processing_state.processed_files = 1
    /\ RetriesOf(processing_state, selected_files[2]) = 2
    /\ selected_files[2] \notin DOMAIN processing_state.errors

Terminal(ps, files) == ~ps.is_processing /\ ps.current_file_index = Len(files)

C14_StartIsFresh ==
    [][ (~processing_state.is_processing /\ processing_state'.is_processing)
          => /\ processing_state'.current_file_index = 0
             /\ processing_state'.processed_files = 0
             /\ processing_state'.results = EmptyMap
             /\ processing_state'.errors = EmptyMap
             /\ processing_state'.retries = EmptyMap
             /\ processing_state'.total_files = Len(selected_files)
             /\ processing_state'.max_retries = processing_state.max_retries
             /\ processing_state'.retry_delay = processing_state.retry_delay ]_vars

(* A run started with a changed max_retries and retry_delay, before its    *)
(* first attempt.                                                          *)
C14_Witness ==
    /\ processing_state.is_processing
    /\ processing_state.current_file_index = 0
    /\ processing_state.processed_files = 0
    /\ processing_state.retries = EmptyMap
    /\ processing_state.max_retries # DefaultMaxRetries
    /\ processing_state.retry_delay # DefaultRetryDelay

(***************************************************************************)
(* Properties of the feedback merge                                        *)
(***************************************************************************)

(* The feedback stored for the file and method of the last call.           *)
FeedbackOfCall(call) ==
    IF FeedbackKey(call.file_id, call.method) \in DOMAIN feedback_data
    THEN feedback_data[FeedbackKey(call.file_id, call.method)]
    ELSE EmptyMap

(* C15: when process_file succeeds, the recorded result has exactly the    *)
(* keys of the fresh extraction and of the feedback stored under           *)
(* (file_id, current extraction method); it holds the feedback value for   *)
(* every feedback key and the freshly extracted value for every other key, *)
(* so feedback stored for another file or method is not merged.            *)
C15_FeedbackOverridesFresh ==
    [][ (last_call' # last_call /\ last_call'.success)
          => LET f == last_call'.file_id
                 fb == FeedbackOfCall(last_call')
                 fresh == last_call'.fresh
             IN /\ last_call'.method = extraction_method
                /\ f \in DOMAIN recorded'
                /\ DOMAIN recorded'[f] = DOMAIN fresh \cup DOMAIN fb
                /\ \A k \in DOMAIN fb : recorded'[f][k] = fb[k]
                /\ \A k \in DOMAIN fresh \ DOMAIN fb : recorded'[f][k] = fresh[k] ]_vars

(* A success whose feedback overrides one extracted value and leaves       *)
(* another, while feedback for the other method is stored too.             *)
C15_Witness ==
    /\ last_call.success
    /\ \E f \in DOMAIN recorded :
         /\ f = last_call.file_id
         /\ FeedbackKey(f, "freeform") \in DOMAIN feedback_data
         /\ FeedbackKey(f, "structured") \in DOMAIN feedback_data
         /\ last_call.method = "freeform"
         /\ LET fb == feedback_data[FeedbackKey(f, "freeform")]
            IN /\ \E k \in DOMAIN fb \cap DOMAIN last_call.fresh :
                    fb[k] # last_call.fresh[k] /\ recorded[f][k] = fb[k]
               /\ \E k \in DOMAIN last_call.fresh \ DOMAIN fb :
                    recorded[f][k] = last_call.fresh[k]
               /\ feedback_data[FeedbackKey(f, "structured")] # fb

(***************************************************************************)
(* Properties of the resolution of targets and metadata                    *)
(***************************************************************************)

(* The set of the ids of a list.                                           *)
Range(seq) == {seq[i] : i \in 1..Len(seq)}

(* The number of times a file id is mentioned by the session collections.  *)
Mentions(file_id) ==
    Cardinality({i \in 1..Len(session.selected_files) :
                   session.selected_files[i].id = file_id})
      + Cardinality({i \in 1..Len(session.extraction_results) :
                       \/ session.extraction_results[i].key = file_id
                       \/ session.extraction_results[i].value.file_id = file_id})
      + Cardinality({i \in 1..Len(session.processing_results) :
                       session.processing_results[i].key = file_id})

(* C16: the resolved list of file ids of each of the three variants holds  *)
(* no file id twice, however often the session collections mention it.     *)
C16_NoDuplicateTargets ==
    \A i, j \in 1..Len(targets.r.available_file_ids) :
      targets.r.available_file_ids[i] = targets.r.available_file_ids[j] => i = j

(* A file id mentioned three times or more is listed once.                 *)
C16_Witness ==
    /\ targets.variant # "none"
    /\ \E f \in Range(targets.r.available_file_ids) :
         /\ Mentions(f) >= 3
         /\ Cardinality({i \in 1..Len(session.selected_files) :
                           session.selected_files[i].id = f}) = 2

(* The record is stored for the file: its key is the id, starts with the   *)
(* id followed by a non-digit, holds it in parentheses, or the record      *)
(* names the id.                                                           *)
StoredFor(item, file_id) ==
    \/ KeyFileId(item.key) = file_id
    \/ item.value.file_id = file_id
    \/ /\ StartsWith(item.key, file_id)
       /\ Len(item.key) > Len(file_id)
       /\ ~IsDigit(<<item.key[Len(file_id) + 1]>>)

(* The mappings a record can give: its payloads, raw or normalized.        *)
MappingsOf(result) ==
    UNION {{content.dict, ValuesFromContent(content)} :
             content \in {result.result, result.answer, RecordMetadata(result),
                          RecordMetadataDirect(result)}}

(* C17: the metadata_values the Apply click of the enhanced variant hands  *)
(* to the remote write of a file come from an extraction record stored for *)
(* that file id; a record whose key yields no id or another id gives       *)
(* nothing to it.                                                          *)
C17_OnlyOwnRecords ==
    (lookup.variant = "enhanced" /\ ~lookup.debug_mode
       /\ session.processing_results = <<>>)
      => \A f \in DOMAIN lookup.values :
           lookup.values[f] # EmptyMap
             => \E i \in 1..Len(session.extraction_results) :
                  /\ StoredFor(session.extraction_results[i], f)
                  /\ lookup.values[f] \in
                       MappingsOf(session.extraction_results[i].value)

(* The first non-empty mapping of a sequence of mappings, or the empty one *)
FirstNonEmpty(mappings) ==
    IF \E i \in 1..Len(mappings) : mappings[i] # EmptyMap
    THEN mappings[CHOOSE i \in 1..Len(mappings) :
                    /\ mappings[i] # EmptyMap
                    /\ \A j \in 1..(i - 1) : mappings[j] = EmptyMap]
    ELSE EmptyMap

(* The normalized mapping the candidates of a record give when they are    *)
(* tried in the order result_data, result, api_response.answer, remaining  *)
(* top-level fields, up to the first that is non-empty.                    *)
FirstCandidate(result) ==
    FirstNonEmpty(<<ValuesFromContent(result.result_data),
                    ValuesFromContent(result.result),
                    ValuesFromContent(result.answer),
                    NotInternal(result.fields)>>)

(* The records stored for a file, in the order of extraction_results.      *)
RECURSIVE RecordsOf(_, _)
RecordsOf(items, file_id) ==
    IF items = <<>> THEN <<>>
    ELSE IF StoredFor(Head(items), file_id)
         THEN <<Head(items).value>> \o RecordsOf(Tail(items), file_id)
         ELSE RecordsOf(Tail(items), file_id)

(* C18: a file with several extraction records is one target, and the      *)
(* metadata found for it is the first non-empty normalized mapping of its  *)
(* records in first-seen order, also when an earlier record is empty and   *)
(* when the file was seeded from selected_files.                           *)
C18_FirstNonEmptyRecord ==
    (lookup.variant \in {"application", "enhanced"} /\ ~lookup.debug_mode
       /\ session.processing_results = <<>>)
      => \A f \in DOMAIN lookup.values :
           LET own == RecordsOf(session.extraction_results, f)
           IN Len(own) >= 2
                => /\ Cardinality({i \in 1..Len(targets.r.available_file_ids) :
                                     targets.r.available_file_ids[i] = f}) = 1
                   /\ lookup.values[f] =
                        FirstNonEmpty([i \in 1..Len(own) |-> FirstCandidate(own[i])])

(* The position of a listed file id.                                       *)
Position(ids, file_id) == CHOOSE p \in 1..Len(ids) : ids[p] = file_id

(* The ids of the selected files, the ids the extraction records give by   *)
(* key or "file_id", and the ids of processing_state["results"].           *)
SelectedIds ==
    {session.selected_files[i].id : i \in 1..Len(session.selected_files)} \ {<<>>}

RecordIds ==
    {IF IsDigit(session.extraction_results[i].key)
     THEN session.extraction_results[i].key
     ELSE session.extraction_results[i].value.file_id :
       i \in 1..Len(session.extraction_results)} \ {NoField}

ProcessingIds ==
    {session.processing_results[i].key : i \in 1..Len(session.processing_results)}

(* C19: the target list of metadata_application.py holds every selected    *)
(* file with a non-empty id, in selection order and with the name of a     *)
(* selected_files entry, before the ids that only extraction records give, *)
(* and these before the ids that only processing_state.results gives; it   *)
(* holds nothing else and no id twice.                                     *)
C19_FirstSeenOrder ==
    targets.variant = "application"
      => LET ids == targets.r.available_file_ids
             names == targets.r.file_id_to_file_name
             First(f) == CHOOSE i \in 1..Len(session.selected_files) :
                           /\ session.selected_files[i].id = f
                           /\ \A j \in 1..(i - 1) : session.selected_files[j].id # f
             Rank(f) == IF f \in SelectedIds THEN 1
                        ELSE IF f \in RecordIds THEN 2 ELSE 3
         IN /\ Range(ids) = SelectedIds \cup RecordIds \cup ProcessingIds
            /\ \A p, q \in 1..Len(ids) : ids[p] = ids[q] => p = q
            /\ \A f, g \in SelectedIds :
                 First(f) < First(g) => Position(ids, f) < Position(ids, g)
            /\ \A f \in SelectedIds :
                 /\ f \in DOMAIN names
                 /\ \E i \in 1..Len(session.selected_files) :
                      /\ session.selected_files[i].id = f
                      /\ session.selected_files[i].name = names[f]
            /\ \A p, q \in 1..Len(ids) :
                 Rank(ids[p]) < Rank(ids[q]) => p < q

(* A selected file that a record names too, then a file only a record      *)
(* gives, then a file only processing_state.results gives.                 *)
C19_Witness ==
    /\ targets.variant = "application"
    /\ Len(targets.r.available_file_ids) = 3
    /\ targets.r.available_file_ids[1] \in SelectedIds \cap RecordIds
    /\ targets.r.available_file_ids[2] \in RecordIds \ SelectedIds
    /\ targets.r.available_file_ids[3] \in ProcessingIds \ (RecordIds \cup SelectedIds)
    /\ session.extraction_results[1].value.file_id = targets.r.available_file_ids[2]

(* The record carries more than one candidate payload.                     *)
SeveralCandidates(result) ==
    Cardinality({c \in {"result_data", "result", "answer", "fields"} :
                   CASE c = "result_data" -> result.result_data.kind # "absent"
                     [] c = "result" -> result.result.kind # "absent"
                     [] c = "answer" -> result.answer.kind # "absent"
                     [] OTHER -> result.fields # EmptyMap}) >= 2

(* C20: for a file with one record that carries several candidate          *)
(* payloads, the metadata found by metadata_application.py is that of the  *)
(* first candidate that yields a non-empty mapping, in the order           *)
(* result_data, result, api_response.answer, remaining top-level fields.   *)
C20_CandidateOrder ==
    lookup.variant = "application"
      => \A f \in DOMAIN lookup.values :
           LET own == RecordsOf(session.extraction_results, f)
           IN (Len(own) = 1 /\ SeveralCandidates(own[1]))
                => lookup.values[f] = FirstCandidate(own[1])

(***************************************************************************)
(* Properties of the normalization of string payloads                      *)
(***************************************************************************)

(* normalize(payload) for a str payload: the parsed JSON object, otherwise *)
(* the single field extracted_text.                                        *)
NormalizedString(text) ==
    IF JsonLoads(text).kind = "dict" THEN JsonLoads(text).dict
    ELSE ExtractedTextKey :> text

(* The str payload apply_metadata_to_file handles for its target: the      *)
(* file's entry of file_id_to_metadata, or the "result" or the             *)
(* api_response "answer" of its record.                                    *)
StringPayloadOf(g) ==
    IF g.content.kind = "str" THEN g.content
    ELSE IF g.content.kind = "absent" /\ g.record.present
    THEN IF Truthy(g.record.result)
         THEN IF g.record.result.kind = "str" THEN g.record.result ELSE Absent
         ELSE IF g.record.answer.kind = "str" THEN g.record.answer ELSE Absent
    ELSE Absent

(* C21 as claimed: on every path of apply_metadata_to_file that handles a  *)
(* str payload (also a str api_response.answer), the values written are    *)
(* the object the string parses to, and otherwise the single field         *)
(* extracted_text holding the string.                                      *)
C21_StringPayloadNormalized ==
    (/\ writes > 0
     /\ given.variant = "metadata_application"
     /\ given.authenticated
     /\ StringPayloadOf(given).kind = "str")
      => LET expected == NormalizedString(StringPayloadOf(given).text)
         IN IF DOMAIN expected = {} THEN Len(requests) = 0
            ELSE /\ Len(requests) >= 1
                 /\ requests[1].body = expected

(***************************************************************************)
(* Properties of the metadata handed to the remote write                   *)
(***************************************************************************)

(* The write payload made of a filtered mapping by the options that follow *)
(* the filter.                                                             *)
PayloadOf(filtered, options) ==
    Stringified(IF options.normalize_keys THEN NormalizeKeys(filtered)
                ELSE filtered)

KeysOfRequest(req) ==
    IF req.op = "create" THEN DOMAIN req.body
    ELSE {PathKey(req.body[i].path) : i \in 1..Len(req.body)}

(* C23 as claimed: no key handed to a remote create or update starts with  *)
(* "_", and none is named file_id or file_name, whatever the record shape  *)
(* and the filtering and key-normalization options.                        *)
C23_NoReservedKeys ==
    \A i \in 1..Len(requests) :
       \A k \in KeysOfRequest(requests[i]) :
          /\ ~StartsWith(k, <<"_">>)
          /\ k # <<"f", "i", "l", "e", "_", "i", "d">>
          /\ k # <<"f", "i", "l", "e", "_", "n", "a", "m", "e">>

(* The mapping the apply starts from when it is a dict with str values.    *)
SourceMapping(g) ==
    IF g.content.kind = "dict" THEN
       IF g.variant = "metadata_application" THEN NotInternal(g.content.dict)
       ELSE g.content.dict
    ELSE EmptyMap

(* C24 as claimed: with key normalization on (and no placeholder filter),  *)
(* the created object has, for every source key, the key lower-cased with  *)
(* spaces and hyphens replaced by underscores, holding the source value,   *)
(* and has no other key.                                                   *)
C24_NormalizedKeysWritten ==
    (/\ writes > 0
     /\ given.authenticated
     /\ given.options.normalize_keys
     /\ ~given.options.filter_placeholders
     /\ DOMAIN SourceMapping(given) # {}
     /\ \A k \in DOMAIN SourceMapping(given) : SourceMapping(given)[k] # NoneValue)
      => LET M == SourceMapping(given)
         IN /\ Len(requests) >= 1
            /\ DOMAIN requests[1].body = {NormalizedKey(k) : k \in DOMAIN M}
            /\ \A k \in DOMAIN M : requests[1].body[NormalizedKey(k)] = M[k]

(***************************************************************************)
(* Properties of the stored extraction results                             *)
(***************************************************************************)

(* C25 as claimed: a stored record is changed only by an explicit user     *)
(* edit: rendering the results view without an edit, and the Apply click   *)
(* with its filtering, key normalization and string conversion, leave      *)
(* every entry of extraction_results as it was.                            *)
C25_OnlyEditsChangeRecords ==
    [][operation'.name \in {"view_results", "apply_metadata_direct"}
         => session'.extraction_results = session.extraction_results]_vars

(***************************************************************************)
(* Properties of the session state initialization                          *)
(***************************************************************************)

RequiredKeys ==
    {"authenticated", "client", "current_page", "selected_files",
     "metadata_config", "extraction_results", "selected_result_ids",
     "application_state", "processing_state"}

(* C26: after initialize_session_state every required session variable is  *)
(* present, and every variable that was present has the value it had: the  *)
(* initialization only fills absent keys, so a run in progress is not      *)
(* reset by it.                                                            *)
C26_InitializationFillsAbsent ==
    [][operation'.name = "initialize_session_state"
         => /\ RequiredKeys \subseteq DOMAIN session_state'
            /\ \A k \in DOMAIN session_state :
                 k \in DOMAIN session_state' /\ session_state'[k] = session_state[k]]_vars

C26_Witness ==
    /\ operation.name = "initialize_session_state"
    /\ operation.keys = {"extraction_results"}
    /\ session_state["extraction_results"] = EmptyMap
    /\ session_state["processing_state"].is_processing
    /\ session_state["application_state"].is_applying
    /\ session_state["current_page"] = "Apply Metadata"

(***************************************************************************)
(* Progress and counters of the extraction retry loop                      *)
(***************************************************************************)

(* Every selected file is in exactly one of results and errors.            *)
Partitioned(ps, files) ==
    \A i \in 1..Len(files) :
       (files[i] \in DOMAIN ps.results) # (files[i] \in DOMAIN ps.errors)

(* C27: without a Cancel click and with every process_file call returning, *)
(* a started extraction run eventually has is_processing false with        *)
(* current_file_index = len(selected_files), and whenever it is in that    *)
(* state every selected file id is in exactly one of results and errors    *)
(* (a file that succeeded after failed attempts is in results only).       *)
C27_RunCompletes ==
    /\ processing_state.is_processing
         ~> (Terminal(processing_state, selected_files)
               /\ Partitioned(processing_state, selected_files))
    /\ [](Terminal(processing_state, selected_files)
            => Partitioned(processing_state, selected_files))

C27_Witness ==
    /\ Terminal(processing_state, selected_files)
    /\ Len(selected_files) = 2
    /\ \E f \in DOMAIN processing_state.results :
         /\ attempts[f] >= 2
         /\ f \notin DOMAIN processing_state.errors
    /\ \E f \in DOMAIN processing_state.errors :
         f \notin DOMAIN processing_state.results

(* A step in which the retry counter of some file grew or was created.     *)
RetryCounted(ps, qs) ==
    \E f \in DOMAIN qs.retries : RetriesOf(qs, f) > RetriesOf(ps, f)

(* C28: once Start Processing was clicked, processed_files equals          *)
(* current_file_index and 0 <= current_file_index <= total_files; a step   *)
(* changes both counters by the same amount (none, one file, or the reset  *)
(* of Start Processing), and a step that retries changes neither.          *)
C28_CountersInStep ==
    /\ [](processing_state.current_file_index >= 0
            => /\ processing_state.processed_files
                    = processing_state.current_file_index
               /\ processing_state.current_file_index
                    <= processing_state.total_files)
    /\ [][ /\ processing_state.current_file_index >= 0
              => \/ /\ processing_state'.current_file_index
                         = processing_state.current_file_index
                    /\ processing_state'.processed_files
                         = processing_state.processed_files
                 \/ /\ processing_state'.current_file_index
                         = processing_state.current_file_index + 1
                    /\ processing_state'.processed_files
                         = processing_state.processed_files + 1
                    /\ ~RetryCounted(processing_state, processing_state')
                 \/ /\ processing_state'.current_file_index = 0
                    /\ processing_state'.processed_files = 0
                    /\ processing_state'.retries = EmptyMap ]_vars

(* A finished run of two files in which a retry happened.                  *)
C28_Witness ==
    /\ processing_state.current_file_index = 2
    /\ processing_state.processed_files = 2
    /\ processing_state.total_files = 2
    /\ \E f \in DOMAIN processing_state.retries : processing_state.retries[f] >= 1
    /\ \E f \in FileIds : attempts[f] >= 2

(* C29: in a run in which max_retries was not changed since Start          *)
(* Processing, the retry counter of every file is within 0..max_retries,   *)
(* and a file with an entry in errors has a counter equal to max_retries.  *)
C29_RetryCounterBounded ==
    max_retries_fixed
      => /\ \A f \in DOMAIN processing_state.retries :
              /\ 0 <= processing_state.retries[f]
              /\ processing_state.retries[f] <= processing_state.max_retries
         /\ \A f \in DOMAIN processing_state.errors :
              /\ f \in DOMAIN processing_state.retries
              /\ processing_state.retries[f] = processing_state.max_retries

(* A file given up after its counter reached a max_retries of 3, next to a *)
(* file that was retried and then succeeded.                               *)
C29_Witness ==
    /\ max_retries_fixed
    /\ processing_state.max_retries = 3
    /\ \E f \in DOMAIN processing_state.errors : processing_state.retries[f] = 3
    /\ \E f \in DOMAIN processing_state.results :
         /\ f \in DOMAIN processing_state.retries
         /\ processing_state.retries[f] \in 1..2

(* C30 as claimed: in every state of a single apply_metadata_batch run     *)
(* (one Apply click, the thread has installed its state dict),             *)
(* applied_files is the number of entries of results plus the number of    *)
(* entries of errors, no file_id is in both maps, and applied_files is at  *)
(* most total_files. The state between the store of a result (lines        *)
(* 465-476) and the store of "applied_files += 1" (line 479) has one entry *)
(* more than the counter says.                                             *)
C30_TallyInEveryState ==
    (started = 1 /\ threads[1].pc \notin {"none", "start"})
      => /\ application_state.applied_files
              = Cardinality(DOMAIN application_state.results)
                + Cardinality(DOMAIN application_state.errors)
         /\ DOMAIN application_state.results
              \cap DOMAIN application_state.errors = {}
         /\ application_state.applied_files <= application_state.total_files

(* The same tally outside that window: whenever the thread of a single run *)
(* is not between the store of a result and the store of the counter, the  *)
(* three conjuncts hold (Cancel and Reset included).                       *)
TallyBetweenTasks ==
    (started = 1 /\ threads[1].pc \notin {"none", "start", "incr_write"})
      => /\ application_state.applied_files
              = Cardinality(DOMAIN application_state.results)
                + Cardinality(DOMAIN application_state.errors)
         /\ DOMAIN application_state.results
              \cap DOMAIN application_state.errors = {}
         /\ application_state.applied_files <= application_state.total_files

====
